---- MODULE Spec2Model ----
(***************************************************************************)
(* A model of the quote-me admin handlers (src/aws/lambda/admin_handler.py)*)
(* with the fuzzy duplicate detector: normalize_text, calculate_similarity,*)
(* are_similar_quotes, and the two call sites that scan the quotes table   *)
(* (handle_create_quote, handle_check_duplicate).                          *)
(*                                                                         *)
(* Strings are sequences of Unicode code points, so that strip, lower,     *)
(* replace, rstrip, re.sub and split are computed character by character.  *)
(* A float produced by a division of two small integers is kept as the     *)
(* pair [num, den]; a comparison with a decimal literal is done by cross   *)
(* multiplication, which agrees with the IEEE comparison for the operand   *)
(* sizes reached here (division and literal are both correctly rounded).   *)
(***************************************************************************)
EXTENDS Integers, Sequences, FiniteSets, TLC

(***************************************************************************)
(* Characters named by the source.                                         *)
(***************************************************************************)
NL == 10
TAB == 9
SPACE == 32
DQUOTE == 34
SQUOTE == 39
HYPHEN == 45
DOT == 46
EN_DASH == 8211
EM_DASH == 8212
ELLIPSIS == 8230
LDQUOTE == 8220
RDQUOTE == 8221
LSQUOTE == 8216
RSQUOTE == 8217

\* The characters str.strip() removes and the regular expression \s matches
\* in a str pattern: the code points for which str.isspace() holds.
Whitespace ==
    {9, 10, 11, 12, 13, 28, 29, 30, 31, 32, 133, 160, 5760, 8192, 8193, 8194,
    8195, 8196, 8197, 8198, 8199, 8200, 8201, 8202, 8232, 8233, 8239, 8287,
    12288}

IsSpace(c) == c \in Whitespace

Range(s) == {s[i] : i \in 1..Len(s)}

Max(a, b) == IF a >= b THEN a ELSE b

Abs(n) == IF n < 0 THEN 0 - n ELSE n

(***************************************************************************)
(* str methods used by normalize_text.                                     *)
(***************************************************************************)
RECURSIVE LStrip(_, _)
LStrip(s, chars) ==
    IF s # <<>> /\ s[1] \in chars THEN LStrip(Tail(s), chars) ELSE s

RECURSIVE RStrip(_, _)
RStrip(s, chars) ==
    IF s # <<>> /\ s[Len(s)] \in chars
    THEN RStrip(SubSeq(s, 1, Len(s) - 1), chars)
    ELSE s

\* str.strip(): leading and trailing whitespace removed.
Strip(s) == RStrip(LStrip(s, Whitespace), Whitespace)

(***************************************************************************)
(* str.lower().  Every code point but two lowers to one code point, by the *)
(* lowercase mapping of the Unicode database: LowerRanges lists it as      *)
(* <<first, last, step, delta>>, the code points first, first + step, ...  *)
(* up to last lowering to themselves plus delta.  U+0130 lowers to the two *)
(* code points U+0069 U+0307, and the capital sigma U+03A3 lowers to the   *)
(* final sigma U+03C2 when a cased letter precedes it and none follows it, *)
(* case-ignorable characters being skipped on both sides.                  *)
(***************************************************************************)
InRanges(c, ranges) == \E r \in ranges : r[1] <= c /\ c <= r[2]

LowerRanges ==
    {<<65,90,1,32>>, <<192,214,1,32>>, <<216,222,1,32>>, <<256,302,2,1>>,
    <<306,310,2,1>>, <<313,327,2,1>>, <<330,374,2,1>>, <<376,376,1,-121>>,
    <<377,381,2,1>>, <<385,385,1,210>>, <<386,388,2,1>>, <<390,390,1,206>>,
    <<391,391,1,1>>, <<393,394,1,205>>, <<395,395,1,1>>, <<398,398,1,79>>,
    <<399,399,1,202>>, <<400,400,1,203>>, <<401,401,1,1>>,
    <<403,403,1,205>>, <<404,404,1,207>>, <<406,406,1,211>>,
    <<407,407,1,209>>, <<408,408,1,1>>, <<412,412,1,211>>,
    <<413,413,1,213>>, <<415,415,1,214>>, <<416,420,2,1>>,
    <<422,422,1,218>>, <<423,423,1,1>>, <<425,425,1,218>>, <<428,428,1,1>>,
    <<430,430,1,218>>, <<431,431,1,1>>, <<433,434,1,217>>, <<435,437,2,1>>,
    <<439,439,1,219>>, <<440,440,1,1>>, <<444,444,1,1>>, <<452,452,1,2>>,
    <<453,453,1,1>>, <<455,455,1,2>>, <<456,456,1,1>>, <<458,458,1,2>>,
    <<459,475,2,1>>, <<478,494,2,1>>, <<497,497,1,2>>, <<498,500,2,1>>,
    <<502,502,1,-97>>, <<503,503,1,-56>>, <<504,542,2,1>>,
    <<544,544,1,-130>>, <<546,562,2,1>>, <<570,570,1,10795>>,
    <<571,571,1,1>>, <<573,573,1,-163>>, <<574,574,1,10792>>,
    <<577,577,1,1>>, <<579,579,1,-195>>, <<580,580,1,69>>, <<581,581,1,71>>,
    <<582,590,2,1>>, <<880,882,2,1>>, <<886,886,1,1>>, <<895,895,1,116>>,
    <<902,902,1,38>>, <<904,906,1,37>>, <<908,908,1,64>>, <<910,911,1,63>>,
    <<913,929,1,32>>, <<931,939,1,32>>, <<975,975,1,8>>, <<984,1006,2,1>>,
    <<1012,1012,1,-60>>, <<1015,1015,1,1>>, <<1017,1017,1,-7>>,
    <<1018,1018,1,1>>, <<1021,1023,1,-130>>, <<1024,1039,1,80>>,
    <<1040,1071,1,32>>, <<1120,1152,2,1>>, <<1162,1214,2,1>>,
    <<1216,1216,1,15>>, <<1217,1229,2,1>>, <<1232,1326,2,1>>,
    <<1329,1366,1,48>>, <<4256,4293,1,7264>>, <<4295,4295,1,7264>>,
    <<4301,4301,1,7264>>, <<5024,5103,1,38864>>, <<5104,5109,1,8>>,
    <<7312,7354,1,-3008>>, <<7357,7359,1,-3008>>, <<7680,7828,2,1>>,
    <<7838,7838,1,-7615>>, <<7840,7934,2,1>>, <<7944,7951,1,-8>>,
    <<7960,7965,1,-8>>, <<7976,7983,1,-8>>, <<7992,7999,1,-8>>,
    <<8008,8013,1,-8>>, <<8025,8031,2,-8>>, <<8040,8047,1,-8>>,
    <<8072,8079,1,-8>>, <<8088,8095,1,-8>>, <<8104,8111,1,-8>>,
    <<8120,8121,1,-8>>, <<8122,8123,1,-74>>, <<8124,8124,1,-9>>,
    <<8136,8139,1,-86>>, <<8140,8140,1,-9>>, <<8152,8153,1,-8>>,
    <<8154,8155,1,-100>>, <<8168,8169,1,-8>>, <<8170,8171,1,-112>>,
    <<8172,8172,1,-7>>, <<8184,8185,1,-128>>, <<8186,8187,1,-126>>,
    <<8188,8188,1,-9>>, <<8486,8486,1,-7517>>, <<8490,8490,1,-8383>>,
    <<8491,8491,1,-8262>>, <<8498,8498,1,28>>, <<8544,8559,1,16>>,
    <<8579,8579,1,1>>, <<9398,9423,1,26>>, <<11264,11311,1,48>>,
    <<11360,11360,1,1>>, <<11362,11362,1,-10743>>, <<11363,11363,1,-3814>>,
    <<11364,11364,1,-10727>>, <<11367,11371,2,1>>, <<11373,11373,1,-10780>>,
    <<11374,11374,1,-10749>>, <<11375,11375,1,-10783>>,
    <<11376,11376,1,-10782>>, <<11378,11378,1,1>>, <<11381,11381,1,1>>,
    <<11390,11391,1,-10815>>, <<11392,11490,2,1>>, <<11499,11501,2,1>>,
    <<11506,11506,1,1>>, <<42560,42604,2,1>>, <<42624,42650,2,1>>,
    <<42786,42798,2,1>>, <<42802,42862,2,1>>, <<42873,42875,2,1>>,
    <<42877,42877,1,-35332>>, <<42878,42886,2,1>>, <<42891,42891,1,1>>,
    <<42893,42893,1,-42280>>, <<42896,42898,2,1>>, <<42902,42920,2,1>>,
    <<42922,42922,1,-42308>>, <<42923,42923,1,-42319>>,
    <<42924,42924,1,-42315>>, <<42925,42925,1,-42305>>,
    <<42926,42926,1,-42308>>, <<42928,42928,1,-42258>>,
    <<42929,42929,1,-42282>>, <<42930,42930,1,-42261>>,
    <<42931,42931,1,928>>, <<42932,42946,2,1>>, <<42948,42948,1,-48>>,
    <<42949,42949,1,-42307>>, <<42950,42950,1,-35384>>, <<42951,42953,2,1>>,
    <<42960,42960,1,1>>, <<42966,42968,2,1>>, <<42997,42997,1,1>>,
    <<65313,65338,1,32>>, <<66560,66599,1,40>>, <<66736,66771,1,40>>,
    <<66928,66938,1,39>>, <<66940,66954,1,39>>, <<66956,66962,1,39>>,
    <<66964,66965,1,39>>, <<68736,68786,1,64>>, <<71840,71871,1,32>>,
    <<93760,93791,1,32>>, <<125184,125217,1,34>>}

\* The cased code points that are not case-ignorable, as <<first, last>>.
CasedRanges ==
    {<<65,90>>, <<97,122>>, <<170,170>>, <<181,181>>, <<186,186>>,
    <<192,214>>, <<216,246>>, <<248,442>>, <<444,447>>, <<452,659>>,
    <<661,687>>, <<880,883>>, <<886,887>>, <<891,893>>, <<895,895>>,
    <<902,902>>, <<904,906>>, <<908,908>>, <<910,929>>, <<931,1013>>,
    <<1015,1153>>, <<1162,1327>>, <<1329,1366>>, <<1376,1416>>,
    <<4256,4293>>, <<4295,4295>>, <<4301,4301>>, <<4304,4346>>,
    <<4349,4351>>, <<5024,5109>>, <<5112,5117>>, <<7296,7304>>,
    <<7312,7354>>, <<7357,7359>>, <<7424,7467>>, <<7531,7543>>,
    <<7545,7578>>, <<7680,7957>>, <<7960,7965>>, <<7968,8005>>,
    <<8008,8013>>, <<8016,8023>>, <<8025,8025>>, <<8027,8027>>,
    <<8029,8029>>, <<8031,8061>>, <<8064,8116>>, <<8118,8124>>,
    <<8126,8126>>, <<8130,8132>>, <<8134,8140>>, <<8144,8147>>,
    <<8150,8155>>, <<8160,8172>>, <<8178,8180>>, <<8182,8188>>,
    <<8450,8450>>, <<8455,8455>>, <<8458,8467>>, <<8469,8469>>,
    <<8473,8477>>, <<8484,8484>>, <<8486,8486>>, <<8488,8488>>,
    <<8490,8493>>, <<8495,8500>>, <<8505,8505>>, <<8508,8511>>,
    <<8517,8521>>, <<8526,8526>>, <<8544,8575>>, <<8579,8580>>,
    <<9398,9449>>, <<11264,11387>>, <<11390,11492>>, <<11499,11502>>,
    <<11506,11507>>, <<11520,11557>>, <<11559,11559>>, <<11565,11565>>,
    <<42560,42605>>, <<42624,42651>>, <<42786,42863>>, <<42865,42887>>,
    <<42891,42894>>, <<42896,42954>>, <<42960,42961>>, <<42963,42963>>,
    <<42965,42969>>, <<42997,42998>>, <<43002,43002>>, <<43824,43866>>,
    <<43872,43880>>, <<43888,43967>>, <<64256,64262>>, <<64275,64279>>,
    <<65313,65338>>, <<65345,65370>>, <<66560,66639>>, <<66736,66771>>,
    <<66776,66811>>, <<66928,66938>>, <<66940,66954>>, <<66956,66962>>,
    <<66964,66965>>, <<66967,66977>>, <<66979,66993>>, <<66995,67001>>,
    <<67003,67004>>, <<68736,68786>>, <<68800,68850>>, <<71840,71903>>,
    <<93760,93823>>, <<119808,119892>>, <<119894,119964>>,
    <<119966,119967>>, <<119970,119970>>, <<119973,119974>>,
    <<119977,119980>>, <<119982,119993>>, <<119995,119995>>,
    <<119997,120003>>, <<120005,120069>>, <<120071,120074>>,
    <<120077,120084>>, <<120086,120092>>, <<120094,120121>>,
    <<120123,120126>>, <<120128,120132>>, <<120134,120134>>,
    <<120138,120144>>, <<120146,120485>>, <<120488,120512>>,
    <<120514,120538>>, <<120540,120570>>, <<120572,120596>>,
    <<120598,120628>>, <<120630,120654>>, <<120656,120686>>,
    <<120688,120712>>, <<120714,120744>>, <<120746,120770>>,
    <<120772,120779>>, <<122624,122633>>, <<122635,122654>>,
    <<125184,125251>>, <<127280,127305>>, <<127312,127337>>,
    <<127344,127369>>}

\* The case-ignorable code points, as <<first, last>>.
CaseIgnorableRanges ==
    {<<39,39>>, <<46,46>>, <<58,58>>, <<94,94>>, <<96,96>>, <<168,168>>,
    <<173,173>>, <<175,175>>, <<180,180>>, <<183,184>>, <<688,879>>,
    <<884,885>>, <<890,890>>, <<900,901>>, <<903,903>>, <<1155,1161>>,
    <<1369,1369>>, <<1375,1375>>, <<1425,1469>>, <<1471,1471>>,
    <<1473,1474>>, <<1476,1477>>, <<1479,1479>>, <<1524,1524>>,
    <<1536,1541>>, <<1552,1562>>, <<1564,1564>>, <<1600,1600>>,
    <<1611,1631>>, <<1648,1648>>, <<1750,1757>>, <<1759,1768>>,
    <<1770,1773>>, <<1807,1807>>, <<1809,1809>>, <<1840,1866>>,
    <<1958,1968>>, <<2027,2037>>, <<2042,2042>>, <<2045,2045>>,
    <<2070,2093>>, <<2137,2139>>, <<2184,2184>>, <<2192,2193>>,
    <<2200,2207>>, <<2249,2306>>, <<2362,2362>>, <<2364,2364>>,
    <<2369,2376>>, <<2381,2381>>, <<2385,2391>>, <<2402,2403>>,
    <<2417,2417>>, <<2433,2433>>, <<2492,2492>>, <<2497,2500>>,
    <<2509,2509>>, <<2530,2531>>, <<2558,2558>>, <<2561,2562>>,
    <<2620,2620>>, <<2625,2626>>, <<2631,2632>>, <<2635,2637>>,
    <<2641,2641>>, <<2672,2673>>, <<2677,2677>>, <<2689,2690>>,
    <<2748,2748>>, <<2753,2757>>, <<2759,2760>>, <<2765,2765>>,
    <<2786,2787>>, <<2810,2815>>, <<2817,2817>>, <<2876,2876>>,
    <<2879,2879>>, <<2881,2884>>, <<2893,2893>>, <<2901,2902>>,
    <<2914,2915>>, <<2946,2946>>, <<3008,3008>>, <<3021,3021>>,
    <<3072,3072>>, <<3076,3076>>, <<3132,3132>>, <<3134,3136>>,
    <<3142,3144>>, <<3146,3149>>, <<3157,3158>>, <<3170,3171>>,
    <<3201,3201>>, <<3260,3260>>, <<3263,3263>>, <<3270,3270>>,
    <<3276,3277>>, <<3298,3299>>, <<3328,3329>>, <<3387,3388>>,
    <<3393,3396>>, <<3405,3405>>, <<3426,3427>>, <<3457,3457>>,
    <<3530,3530>>, <<3538,3540>>, <<3542,3542>>, <<3633,3633>>,
    <<3636,3642>>, <<3654,3662>>, <<3761,3761>>, <<3764,3772>>,
    <<3782,3782>>, <<3784,3789>>, <<3864,3865>>, <<3893,3893>>,
    <<3895,3895>>, <<3897,3897>>, <<3953,3966>>, <<3968,3972>>,
    <<3974,3975>>, <<3981,3991>>, <<3993,4028>>, <<4038,4038>>,
    <<4141,4144>>, <<4146,4151>>, <<4153,4154>>, <<4157,4158>>,
    <<4184,4185>>, <<4190,4192>>, <<4209,4212>>, <<4226,4226>>,
    <<4229,4230>>, <<4237,4237>>, <<4253,4253>>, <<4348,4348>>,
    <<4957,4959>>, <<5906,5908>>, <<5938,5939>>, <<5970,5971>>,
    <<6002,6003>>, <<6068,6069>>, <<6071,6077>>, <<6086,6086>>,
    <<6089,6099>>, <<6103,6103>>, <<6109,6109>>, <<6155,6159>>,
    <<6211,6211>>, <<6277,6278>>, <<6313,6313>>, <<6432,6434>>,
    <<6439,6440>>, <<6450,6450>>, <<6457,6459>>, <<6679,6680>>,
    <<6683,6683>>, <<6742,6742>>, <<6744,6750>>, <<6752,6752>>,
    <<6754,6754>>, <<6757,6764>>, <<6771,6780>>, <<6783,6783>>,
    <<6823,6823>>, <<6832,6862>>, <<6912,6915>>, <<6964,6964>>,
    <<6966,6970>>, <<6972,6972>>, <<6978,6978>>, <<7019,7027>>,
    <<7040,7041>>, <<7074,7077>>, <<7080,7081>>, <<7083,7085>>,
    <<7142,7142>>, <<7144,7145>>, <<7149,7149>>, <<7151,7153>>,
    <<7212,7219>>, <<7222,7223>>, <<7288,7293>>, <<7376,7378>>,
    <<7380,7392>>, <<7394,7400>>, <<7405,7405>>, <<7412,7412>>,
    <<7416,7417>>, <<7468,7530>>, <<7544,7544>>, <<7579,7679>>,
    <<8125,8125>>, <<8127,8129>>, <<8141,8143>>, <<8157,8159>>,
    <<8173,8175>>, <<8189,8190>>, <<8203,8207>>, <<8216,8217>>,
    <<8228,8228>>, <<8231,8231>>, <<8234,8238>>, <<8288,8292>>,
    <<8294,8303>>, <<8305,8305>>, <<8319,8319>>, <<8336,8348>>,
    <<8400,8432>>, <<11388,11389>>, <<11503,11505>>, <<11631,11631>>,
    <<11647,11647>>, <<11744,11775>>, <<11823,11823>>, <<12293,12293>>,
    <<12330,12333>>, <<12337,12341>>, <<12347,12347>>, <<12441,12446>>,
    <<12540,12542>>, <<40981,40981>>, <<42232,42237>>, <<42508,42508>>,
    <<42607,42610>>, <<42612,42621>>, <<42623,42623>>, <<42652,42655>>,
    <<42736,42737>>, <<42752,42785>>, <<42864,42864>>, <<42888,42890>>,
    <<42994,42996>>, <<43000,43001>>, <<43010,43010>>, <<43014,43014>>,
    <<43019,43019>>, <<43045,43046>>, <<43052,43052>>, <<43204,43205>>,
    <<43232,43249>>, <<43263,43263>>, <<43302,43309>>, <<43335,43345>>,
    <<43392,43394>>, <<43443,43443>>, <<43446,43449>>, <<43452,43453>>,
    <<43471,43471>>, <<43493,43494>>, <<43561,43566>>, <<43569,43570>>,
    <<43573,43574>>, <<43587,43587>>, <<43596,43596>>, <<43632,43632>>,
    <<43644,43644>>, <<43696,43696>>, <<43698,43700>>, <<43703,43704>>,
    <<43710,43711>>, <<43713,43713>>, <<43741,43741>>, <<43756,43757>>,
    <<43763,43764>>, <<43766,43766>>, <<43867,43871>>, <<43881,43883>>,
    <<44005,44005>>, <<44008,44008>>, <<44013,44013>>, <<64286,64286>>,
    <<64434,64450>>, <<65024,65039>>, <<65043,65043>>, <<65056,65071>>,
    <<65106,65106>>, <<65109,65109>>, <<65279,65279>>, <<65287,65287>>,
    <<65294,65294>>, <<65306,65306>>, <<65342,65342>>, <<65344,65344>>,
    <<65392,65392>>, <<65438,65439>>, <<65507,65507>>, <<65529,65531>>,
    <<66045,66045>>, <<66272,66272>>, <<66422,66426>>, <<67456,67461>>,
    <<67463,67504>>, <<67506,67514>>, <<68097,68099>>, <<68101,68102>>,
    <<68108,68111>>, <<68152,68154>>, <<68159,68159>>, <<68325,68326>>,
    <<68900,68903>>, <<69291,69292>>, <<69446,69456>>, <<69506,69509>>,
    <<69633,69633>>, <<69688,69702>>, <<69744,69744>>, <<69747,69748>>,
    <<69759,69761>>, <<69811,69814>>, <<69817,69818>>, <<69821,69821>>,
    <<69826,69826>>, <<69837,69837>>, <<69888,69890>>, <<69927,69931>>,
    <<69933,69940>>, <<70003,70003>>, <<70016,70017>>, <<70070,70078>>,
    <<70089,70092>>, <<70095,70095>>, <<70191,70193>>, <<70196,70196>>,
    <<70198,70199>>, <<70206,70206>>, <<70367,70367>>, <<70371,70378>>,
    <<70400,70401>>, <<70459,70460>>, <<70464,70464>>, <<70502,70508>>,
    <<70512,70516>>, <<70712,70719>>, <<70722,70724>>, <<70726,70726>>,
    <<70750,70750>>, <<70835,70840>>, <<70842,70842>>, <<70847,70848>>,
    <<70850,70851>>, <<71090,71093>>, <<71100,71101>>, <<71103,71104>>,
    <<71132,71133>>, <<71219,71226>>, <<71229,71229>>, <<71231,71232>>,
    <<71339,71339>>, <<71341,71341>>, <<71344,71349>>, <<71351,71351>>,
    <<71453,71455>>, <<71458,71461>>, <<71463,71467>>, <<71727,71735>>,
    <<71737,71738>>, <<71995,71996>>, <<71998,71998>>, <<72003,72003>>,
    <<72148,72151>>, <<72154,72155>>, <<72160,72160>>, <<72193,72202>>,
    <<72243,72248>>, <<72251,72254>>, <<72263,72263>>, <<72273,72278>>,
    <<72281,72283>>, <<72330,72342>>, <<72344,72345>>, <<72752,72758>>,
    <<72760,72765>>, <<72767,72767>>, <<72850,72871>>, <<72874,72880>>,
    <<72882,72883>>, <<72885,72886>>, <<73009,73014>>, <<73018,73018>>,
    <<73020,73021>>, <<73023,73029>>, <<73031,73031>>, <<73104,73105>>,
    <<73109,73109>>, <<73111,73111>>, <<73459,73460>>, <<78896,78904>>,
    <<92912,92916>>, <<92976,92982>>, <<92992,92995>>, <<94031,94031>>,
    <<94095,94111>>, <<94176,94177>>, <<94179,94180>>, <<110576,110579>>,
    <<110581,110587>>, <<110589,110590>>, <<113821,113822>>,
    <<113824,113827>>, <<118528,118573>>, <<118576,118598>>,
    <<119143,119145>>, <<119155,119170>>, <<119173,119179>>,
    <<119210,119213>>, <<119362,119364>>, <<121344,121398>>,
    <<121403,121452>>, <<121461,121461>>, <<121476,121476>>,
    <<121499,121503>>, <<121505,121519>>, <<122880,122886>>,
    <<122888,122904>>, <<122907,122913>>, <<122915,122916>>,
    <<122918,122922>>, <<123184,123197>>, <<123566,123566>>,
    <<123628,123631>>, <<125136,125142>>, <<125252,125259>>,
    <<127995,127999>>, <<917505,917505>>, <<917536,917631>>,
    <<917760,917999>>}

LowerMapped(c) ==
    IF \E r \in LowerRanges : r[1] <= c /\ c <= r[2] /\ (c - r[1]) % r[3] = 0
    THEN c + (CHOOSE r \in LowerRanges :
                 r[1] <= c /\ c <= r[2] /\ (c - r[1]) % r[3] = 0)[4]
    ELSE c

LowerChar(c) ==
    IF c < 128 THEN (IF c \in 65..90 THEN c + 32 ELSE c) ELSE LowerMapped(c)

CasedBefore(s, i) ==
    \E j \in 1..(i - 1) :
        /\ InRanges(s[j], CasedRanges)
        /\ \A k \in (j + 1)..(i - 1) : InRanges(s[k], CaseIgnorableRanges)

CasedAfter(s, i) ==
    \E j \in (i + 1)..Len(s) :
        /\ InRanges(s[j], CasedRanges)
        /\ \A k \in (i + 1)..(j - 1) : InRanges(s[k], CaseIgnorableRanges)

FinalSigma(s, i) == CasedBefore(s, i) /\ ~CasedAfter(s, i)

\* The code points the character at position i lowers to.
LowerAt(s, i) ==
    IF s[i] = 304 THEN <<105, 775>>
    ELSE IF s[i] = 931 THEN <<IF FinalSigma(s, i) THEN 962 ELSE 963>>
    ELSE <<LowerChar(s[i])>>

RECURSIVE LowerFrom(_, _)
LowerFrom(s, i) == IF i > Len(s) THEN <<>> ELSE LowerAt(s, i) \o LowerFrom(s, i + 1)

Lower(s) ==
    IF \A i \in 1..Len(s) : s[i] \notin {304, 931}
    THEN [i \in 1..Len(s) |-> LowerChar(s[i])]
    ELSE LowerFrom(s, 1)

\* str.replace(old, new) for a non-empty old: leftmost, non-overlapping.
RECURSIVE Replace(_, _, _)
Replace(s, old, new) ==
    IF Len(s) < Len(old) THEN s
    ELSE IF SubSeq(s, 1, Len(old)) = old
         THEN new \o Replace(SubSeq(s, Len(old) + 1, Len(s)), old, new)
         ELSE <<s[1]>> \o Replace(Tail(s), old, new)

\* re.sub(r'\s+', ' ', s): every maximal run of whitespace becomes one space.
RECURSIVE CollapseWhitespace(_)
CollapseWhitespace(s) ==
    IF s = <<>> THEN <<>>
    ELSE IF IsSpace(s[1])
         THEN <<SPACE>> \o CollapseWhitespace(LStrip(s, Whitespace))
         ELSE <<s[1]>> \o CollapseWhitespace(Tail(s))

\* The first argument of the first replace of line 27.  The three quote
\* characters that open it make a triple-quoted literal, whose text runs to
\* the next three quote characters: , "'").replace(
ApostrophePattern ==
    <<44, 32, 34, 39, 34, 41, 46, 114, 101, 112, 108, 97, 99, 101, 40>>

normalize_text(text) ==
    IF text = <<>> THEN <<>>
    ELSE LET t1 == Lower(Strip(text))
             t2 == Replace(Replace(t1, <<NL>>, <<SPACE>>), <<TAB>>, <<SPACE>>)
             t3 == Replace(Replace(t2, <<DQUOTE>>, <<DQUOTE>>), <<DQUOTE>>, <<DQUOTE>>)
             t4 == Replace(t3, ApostrophePattern, <<SQUOTE>>)
             t5 == Replace(Replace(t4, <<EM_DASH>>, <<HYPHEN>>), <<EN_DASH>>, <<HYPHEN>>)
             t6 == Replace(t5, <<ELLIPSIS>>, <<DOT, DOT, DOT>>)
             t7 == RStrip(t6, {DOT})
         IN  CollapseWhitespace(t7)

(***************************************************************************)
(* calculate_similarity.  The result is the quotient num / den.            *)
(***************************************************************************)
Ratio(n, d) == [num |-> n, den |-> d]

\* str.split(sep) for a one-character sep: the pieces between separators,
\* empty pieces included.
RECURSIVE Split(_, _)
Split(s, sep) ==
    IF \E i \in 1..Len(s) : s[i] = sep
    THEN LET k == CHOOSE i \in 1..Len(s) :
                      s[i] = sep /\ \A j \in 1..(i - 1) : s[j] # sep
         IN  <<SubSeq(s, 1, k - 1)>> \o Split(SubSeq(s, k + 1, Len(s)), sep)
    ELSE <<s>>

\* char_matches counting the characters of text1 that text2 holds anywhere.
char_matches_any_position(text1, text2) ==
    Cardinality({i \in 1..Len(text1) : text1[i] \in Range(text2)})

char_matches(text1, text2) ==
    Cardinality({i \in 1..Max(Len(text1), Len(text2)) :
                    i <= Len(text1) /\ i <= Len(text2) /\ text1[i] = text2[i]})

\* common_words counting the words of two characters as well.
common_words_from_two(words1, words2) ==
    Cardinality({i \in 1..Len(words1) :
                    words1[i] \in Range(words2) /\ Len(words1[i]) >= 2})

common_words(words1, words2) ==
    Cardinality({i \in 1..Len(words1) :
                    words1[i] \in Range(words2) /\ Len(words1[i]) > 2})

\* calculate_similarity with the character branch for lengths at most 2 apart.
calculate_similarity_two_apart(text1, text2) ==
    IF text1 = <<>> /\ text2 = <<>> THEN Ratio(1, 1)
    ELSE IF text1 = <<>> \/ text2 = <<>> THEN Ratio(0, 1)
    ELSE IF Abs(Len(text1) - Len(text2)) <= 2
         THEN Ratio(char_matches(text1, text2), Max(Len(text1), Len(text2)))
         ELSE Ratio(2 * common_words(Split(text1, SPACE), Split(text2, SPACE)),
                    Len(Split(text1, SPACE)) + Len(Split(text2, SPACE)))

\* calculate_similarity with the two tests of lines 39 and 41 exchanged.
calculate_similarity_empty_first(text1, text2) ==
    IF text1 = <<>> \/ text2 = <<>> THEN Ratio(0, 1)
    ELSE IF text1 = <<>> /\ text2 = <<>> THEN Ratio(1, 1)
    ELSE IF Abs(Len(text1) - Len(text2)) <= 3
         THEN Ratio(char_matches(text1, text2), Max(Len(text1), Len(text2)))
         ELSE Ratio(2 * common_words(Split(text1, SPACE), Split(text2, SPACE)),
                    Len(Split(text1, SPACE)) + Len(Split(text2, SPACE)))

calculate_similarity(text1, text2) ==
    IF text1 = <<>> /\ text2 = <<>> THEN Ratio(1, 1)
    ELSE IF text1 = <<>> \/ text2 = <<>> THEN Ratio(0, 1)
    ELSE IF Abs(Len(text1) - Len(text2)) <= 3
         THEN Ratio(char_matches(text1, text2), Max(Len(text1), Len(text2)))
         ELSE LET words1 == Split(text1, SPACE)
                  words2 == Split(text2, SPACE)
              IN  Ratio(2 * common_words(words1, words2),
                        Len(words1) + Len(words2))

\* r >= pct / 100
AtLeast(r, pct) == r.num * 100 >= pct * r.den

(***************************************************************************)
(* f"{r:.2f}".  r is the float num / den: the quotient rounded to the      *)
(* nearest number of 53 significant bits, a tie going to the even one.     *)
(* The format prints the hundredth nearest to that float, a tie going to   *)
(* the even hundredth.  The float lies within 2^-53 of the quotient in     *)
(* relative terms, and a quotient that is no odd multiple of 1/200 lies at *)
(* least 1/(200 * den) from one, so the float and the quotient round to    *)
(* the same hundredth unless the quotient is an odd multiple of 1/200;     *)
(* then the side on which the float lies decides.                          *)
(***************************************************************************)
\* n / d times the power of two that brings it into [1, 2), as <<a, b>>.
RECURSIVE Scaled(_, _)
Scaled(n, d) ==
    IF n < d THEN Scaled(2 * n, d)
    ELSE IF n >= 2 * d THEN Scaled(n, 2 * d)
    ELSE <<n, d>>

\* Long division in binary: the remainder after `bits` more quotient bits.
RECURSIVE Remainder(_, _, _)
Remainder(r, b, bits) ==
    IF bits = 0 THEN r ELSE Remainder((2 * r) % b, b, bits - 1)

\* The sign of float(n / d) - n / d, for n > 0: the quotient bits after the
\* 53rd are dropped (-1), round up to the next float (1), or are all zero (0).
FloatError(n, d) ==
    LET ab == Scaled(n, d)
        r51 == Remainder(ab[1] - ab[2], ab[2], 51)
        r52 == (2 * r51) % ab[2]
    IN  IF r52 = 0 THEN 0
        ELSE IF 2 * r52 < ab[2] THEN -1
        ELSE IF 2 * r52 > ab[2] THEN 1
        ELSE IF 2 * r51 < ab[2] THEN -1 ELSE 1

Hundredths(r) ==
    LET q == (100 * r.num) \div r.den
        m == (100 * r.num) % r.den
    IN  IF 2 * m < r.den THEN q
        ELSE IF 2 * m > r.den THEN q + 1
        ELSE IF FloatError(r.num, r.den) > 0 THEN q + 1
        ELSE IF FloatError(r.num, r.den) < 0 THEN q
        ELSE IF q % 2 = 0 THEN q ELSE q + 1

(***************************************************************************)
(* are_similar_quotes.  A reason is the rule's name and the scores the     *)
(* f-string embeds, in hundredths: similar_quote_same_author_0.93 is       *)
(* Reason("similar_quote_same_author", <<93>>).                            *)
(***************************************************************************)
SimilarQuotePct == 90
SimilarAuthorPct == 85
BothQuotePct == 95
BothAuthorPct == 90

Reason(rule, scores) == [rule |-> rule, scores |-> scores]

NoReason == Reason("None", <<>>)

\* r > pct / 100
MoreThan(r, pct) == r.num * 100 > pct * r.den

\* similar_verdict with the thresholds exclusive (> for >=).
similar_verdict_exclusive(normalized_quote1, normalized_quote2, normalized_author1, normalized_author2, quote_similarity, author_similarity) ==
    IF normalized_quote1 = normalized_quote2 /\ normalized_author1 = normalized_author2
    THEN <<TRUE, Reason("exact_match", <<>>)>>
    ELSE IF MoreThan(quote_similarity, SimilarQuotePct)
            /\ normalized_author1 = normalized_author2
    THEN <<TRUE, Reason("similar_quote_same_author", <<Hundredths(quote_similarity)>>)>>
    ELSE IF normalized_quote1 = normalized_quote2 /\ MoreThan(author_similarity, SimilarAuthorPct)
    THEN <<TRUE, Reason("same_quote_similar_author", <<Hundredths(author_similarity)>>)>>
    ELSE IF MoreThan(quote_similarity, BothQuotePct) /\ MoreThan(author_similarity, BothAuthorPct)
    THEN <<TRUE, Reason("both_similar", <<Hundredths(quote_similarity), Hundredths(author_similarity)>>)>>
    ELSE <<FALSE, NoReason>>

\* similar_verdict with both_similar tested ahead of same_quote_similar_author.
similar_verdict_reordered(normalized_quote1, normalized_quote2, normalized_author1, normalized_author2, quote_similarity, author_similarity) ==
    IF normalized_quote1 = normalized_quote2 /\ normalized_author1 = normalized_author2
    THEN <<TRUE, Reason("exact_match", <<>>)>>
    ELSE IF AtLeast(quote_similarity, SimilarQuotePct)
            /\ normalized_author1 = normalized_author2
    THEN <<TRUE, Reason("similar_quote_same_author", <<Hundredths(quote_similarity)>>)>>
    ELSE IF AtLeast(quote_similarity, BothQuotePct) /\ AtLeast(author_similarity, BothAuthorPct)
    THEN <<TRUE, Reason("both_similar", <<Hundredths(quote_similarity), Hundredths(author_similarity)>>)>>
    ELSE IF normalized_quote1 = normalized_quote2 /\ AtLeast(author_similarity, SimilarAuthorPct)
    THEN <<TRUE, Reason("same_quote_similar_author", <<Hundredths(author_similarity)>>)>>
    ELSE <<FALSE, NoReason>>

\* lines 73-91: the four rules, on the normalized texts and the two scores.
similar_verdict(normalized_quote1, normalized_quote2, normalized_author1, normalized_author2, quote_similarity, author_similarity) ==
    IF normalized_quote1 = normalized_quote2 /\ normalized_author1 = normalized_author2
    THEN <<TRUE, Reason("exact_match", <<>>)>>
    ELSE IF AtLeast(quote_similarity, SimilarQuotePct)
            /\ normalized_author1 = normalized_author2
    THEN <<TRUE, Reason("similar_quote_same_author", <<Hundredths(quote_similarity)>>)>>
    ELSE IF normalized_quote1 = normalized_quote2 /\ AtLeast(author_similarity, SimilarAuthorPct)
    THEN <<TRUE, Reason("same_quote_similar_author", <<Hundredths(author_similarity)>>)>>
    ELSE IF AtLeast(quote_similarity, BothQuotePct) /\ AtLeast(author_similarity, BothAuthorPct)
    THEN <<TRUE, Reason("both_similar", <<Hundredths(quote_similarity), Hundredths(author_similarity)>>)>>
    ELSE <<FALSE, NoReason>>

\* lines 78 and 83: the scores of the normalized texts.
compare_normalized(normalized_quote1, normalized_quote2, normalized_author1, normalized_author2) ==
    similar_verdict(normalized_quote1, normalized_quote2, normalized_author1,
                    normalized_author2,
                    calculate_similarity(normalized_quote1, normalized_quote2),
                    calculate_similarity(normalized_author1, normalized_author2))

are_similar_quotes(quote1_text, quote1_author, quote2_text, quote2_author) ==
    compare_normalized(normalize_text(quote1_text), normalize_text(quote2_text),
                       normalize_text(quote1_author), normalize_text(quote2_author))

(***************************************************************************)
(* The stores and the requests.                                            *)
(*                                                                         *)
(* table is the quotes table in scan order (the order of the key hash,     *)
(* modelled by the order of the ids); an item is a record whose fields are *)
(* the attributes it has.  tags_table is the set of keys of the tags table.*)
(* Each process p is one invocation of the handler: req[p] is its event,   *)
(* scan[p] the locals of its duplicate scan, resp[p] its response and      *)
(* start[p] the two tables as they were when the invocation began.         *)
(* call is the frame of one call of a pure function of the detector.       *)
(***************************************************************************)
VARIABLES table, tags_table, pc, req, scan, resp, start, call

vars == <<table, tags_table, pc, req, scan, resp, start, call>>

Procs == {"p1", "p2"}

\* metadata_id = "TAGS_METADATA": the one id that is no uuid.
METADATA_ID == 0

\* id.startswith('TAGS_')
HasTagsPrefix(id) == id = METADATA_ID

Has(item, attr) == attr \in DOMAIN item

\* dict.get(attr, default)
Get(item, attr, default) == IF Has(item, attr) THEN item[attr] ELSE default

\* ProjectionExpression: the named attributes an item has.
Project(item, attrs) == [a \in (DOMAIN item) \cap attrs |-> item[a]]

Ids(t) == {t[i].id : i \in 1..Len(t)}

Lookup(t, id) == t[CHOOSE i \in 1..Len(t) : t[i].id = id]

\* put_item: the item replaces the one with its id, or takes its place in
\* the order of the ids.
PutItem(t, item) ==
    SelectSeq(t, LAMBDA x : x.id < item.id) \o <<item>>
        \o SelectSeq(t, LAMBDA x : x.id > item.id)

(***************************************************************************)
(* table.scan: one page.  The store answers a scan in an order derived     *)
(* from the keys, which the model renders as the order of the ids.         *)
(* ExclusiveStartKey is the id the previous page ended with; NoKey stands  *)
(* for a request that carries none.  A page holds at most PageSize items,  *)
(* and carries a LastEvaluatedKey when items remain.                       *)
(***************************************************************************)
PageSize == 2

NoKey == -1

ItemsAfter(t, key) == IF key = NoKey THEN t ELSE SelectSeq(t, LAMBDA x : x.id > key)

PageOf(rest, n) ==
    [Items |-> SubSeq(rest, 1, n),
     more |-> n < Len(rest),
     LastEvaluatedKey |-> IF n < Len(rest) THEN rest[n].id ELSE NoKey]

FirstPage(rest) == PageOf(rest, IF Len(rest) < PageSize THEN Len(rest) ELSE PageSize)

ScanPage(t, key) == FirstPage(ItemsAfter(t, key))

(***************************************************************************)
(* Events.  An event carries the route, the caller's claims and the body;  *)
(* json_ok tells whether the body parses, data is the parsed object, a     *)
(* record holding the keys the body has.  quote and author are strings;    *)
(* tags is [is_list, items], a list of strings or a value of another type. *)
(***************************************************************************)
Absent == [present |-> FALSE, value |-> <<>>]

Given(v) == [present |-> TRUE, value |-> v]

Field(name, opt) == IF opt.present THEN [k \in {name} |-> opt.value] ELSE <<>>

Body(q, a, t) == Field("quote", q) @@ Field("author", a) @@ Field("tags", t)

TagList(items) == [is_list |-> TRUE, items |-> items]

NotAList == [is_list |-> FALSE, items |-> <<>>]

Event(route, is_admin, json_ok, data) ==
    [route |-> route, is_admin |-> is_admin, username |-> "admin",
     json_ok |-> json_ok, data |-> data]

NoEvent == Event("none", FALSE, FALSE, <<>>)

\* create_response(status_code, body)
create_response(status_code, body) == [statusCode |-> status_code, body |-> body]

NoResponse == create_response(0, <<>>)

(***************************************************************************)
(* validate_quote_data: the list of error messages.                        *)
(***************************************************************************)
\* FieldErrors without the strip: a whitespace-only value passes.
FieldErrors_unstripped(data, field) ==
    IF ~Has(data, field) \/ data[field] = <<>>
    THEN <<<<field, "is required and cannot be empty">>>>
    ELSE <<>>

FieldErrors(data, field) ==
    IF ~Has(data, field) \/ data[field] = <<>> \/ Strip(data[field]) = <<>>
    THEN <<<<field, "is required and cannot be empty">>>>
    ELSE <<>>

TagErrors(data) ==
    IF ~Has(data, "tags") THEN <<>>
    ELSE IF ~data.tags.is_list THEN <<<<"tags", "must be an array">>>>
    ELSE IF \E i \in 1..Len(data.tags.items) : Strip(data.tags.items[i]) = <<>>
         THEN <<<<"tags", "All tags must be non-empty strings">>>>
         ELSE <<>>

validate_quote_data(data) ==
    FieldErrors(data, "quote") \o FieldErrors(data, "author") \o TagErrors(data)

(***************************************************************************)
(* update_tags_metadata: the metadata record is read (get_item), the new    *)
(* tags merged in, and the record written back with its tags sorted        *)
(* (put_item).  Each of the two requests is a step of the calling handler, *)
(* and each may raise: the function goes on without the stored tags when   *)
(* get_item raises, and returns with nothing written when put_item does.   *)
(***************************************************************************)
RECURSIVE LexLess(_, _)
LexLess(a, b) ==
    IF b = <<>> THEN FALSE
    ELSE IF a = <<>> THEN TRUE
    ELSE IF a[1] # b[1] THEN a[1] < b[1]
    ELSE LexLess(Tail(a), Tail(b))

\* sorted(list(S)) for a set of strings.
RECURSIVE Sorted(_)
Sorted(S) ==
    IF S = {} THEN <<>>
    ELSE LET m == CHOOSE x \in S : \A y \in S \ {x} : LexLess(x, y)
         IN  <<m>> \o Sorted(S \ {m})

\* lines 148-149: the tags of the metadata record, none when it is absent.
stored_tags(t) ==
    IF METADATA_ID \in Ids(t)
    THEN Range(Get(Lookup(t, METADATA_ID), "tags", <<>>))
    ELSE {}

\* lines 158-162: the record written back.
tags_metadata_record(current_tags, timestamp) ==
    [id |-> METADATA_ID, tags |-> Sorted(current_tags), updated_at |-> timestamp]

\* lines 146-155: current_tags after the get_item and the merge; the get_item
\* that raises leaves the set empty ahead of the merge (lines 150-151).
merged_tags(t, new_tags, raises) ==
    (IF raises THEN {} ELSE stored_tags(t)) \cup Range(new_tags)

\* lines 157-168: the table after the put_item; the put_item that raises
\* writes nothing, and the function returns all the same (lines 166-168).
metadata_written(t, current_tags, timestamp, raises) ==
    IF raises THEN t ELSE PutItem(t, tags_metadata_record(current_tags, timestamp))

(***************************************************************************)
(* The duplicate scan of the two call sites.  The locals of the loop are   *)
(* ExclusiveStartKey and duplicates_found; pages, visited, compared,       *)
(* complete and failed record what the loop did: the page requests issued, *)
(* the ids of the items iterated over, the ids of the items handed to      *)
(* are_similar_quotes, whether the last page was processed, and whether a  *)
(* page request raised.  quote_item is the item the create path wrote,     *)
(* put_failed whether its put_item raised; current_tags and timestamp are  *)
(* the locals of update_tags_metadata.                                     *)
(***************************************************************************)
NewScan ==
    [ExclusiveStartKey |-> NoKey, duplicates_found |-> <<>>, pages |-> 0,
     visited |-> <<>>, compared |-> <<>>, complete |-> FALSE, failed |-> FALSE,
     put_failed |-> FALSE, quote_item |-> <<>>, current_tags |-> {}, timestamp |-> ""]

IdsOf(items) == [i \in 1..Len(items) |-> items[i].id]

CreateProjection == {"id", "quote", "author", "created_at"}

\* line 284: items the create path skips.
create_skips(item) == ~Has(item, "quote") \/ ~Has(item, "author")

\* line 1022: items the check path skips.
check_skips(item) ==
    HasTagsPrefix(Get(item, "id", NoKey)) \/ Get(item, "quote", <<>>) = <<>>

create_compared(items) == SelectSeq(items, LAMBDA item : ~create_skips(item))

check_compared(items) == SelectSeq(items, LAMBDA item : ~check_skips(item))

\* lines 288-295: the entry appended when the verdict is a match.
create_entry(item, verdict) ==
    IF verdict[1]
    THEN <<[id |-> item.id,
            quote |-> item.quote,
            author |-> item.author,
            created_at |-> Get(item, "created_at", ""),
            match_reason |-> verdict[2]]>>
    ELSE <<>>

\* create_item_duplicates matching only texts that are equal as written.
create_item_duplicates_verbatim(item, quote_text, author) ==
    IF create_skips(item) THEN <<>>
    ELSE create_entry(item, <<quote_text = item.quote /\ author = item.author,
                              Reason("exact_match", <<>>)>>)

\* lines 283-295: the body of the loop, for one item.
create_item_duplicates(item, quote_text, author) ==
    IF create_skips(item) THEN <<>>
    ELSE create_entry(item, are_similar_quotes(quote_text, author, item.quote, item.author))

\* create_page_duplicates leaving the loop at the first match of the page.
RECURSIVE create_page_first_duplicate(_, _, _)
create_page_first_duplicate(items, quote_text, author) ==
    IF items = <<>> THEN <<>>
    ELSE IF create_item_duplicates(Head(items), quote_text, author) # <<>>
    THEN create_item_duplicates(Head(items), quote_text, author)
    ELSE create_page_first_duplicate(Tail(items), quote_text, author)

\* lines 282-295: the entries one page adds to duplicates_found.
RECURSIVE create_page_duplicates(_, _, _)
create_page_duplicates(items, quote_text, author) ==
    IF items = <<>> THEN <<>>
    ELSE create_item_duplicates(Head(items), quote_text, author)
             \o create_page_duplicates(Tail(items), quote_text, author)

\* lines 1033-1040
check_entry(item, existing_quote, existing_author, verdict) ==
    IF verdict[1]
    THEN <<[id |-> Get(item, "id", NoKey),
            quote |-> existing_quote,
            author |-> existing_author,
            created_at |-> Get(item, "created_at", "None"),
            match_reason |-> verdict[2]]>>
    ELSE <<>>

\* lines 1025-1040
check_existing(item, existing_quote, existing_author, quote_text, author) ==
    check_entry(item, existing_quote, existing_author,
                are_similar_quotes(quote_text, author, existing_quote, existing_author))

\* lines 1021-1040: the body of the loop, for one item.
check_item_duplicates(item, quote_text, author) ==
    IF check_skips(item) THEN <<>>
    ELSE check_existing(item, Get(item, "quote", <<>>), Get(item, "author", <<>>),
                        quote_text, author)

\* lines 1020-1040
RECURSIVE check_page_duplicates(_, _, _)
check_page_duplicates(items, quote_text, author) ==
    IF items = <<>> THEN <<>>
    ELSE check_item_duplicates(Head(items), quote_text, author)
             \o check_page_duplicates(Tail(items), quote_text, author)

\* The locals after a page: items are the page's items, found the entries
\* they add, compared the items that were not skipped.
after_page(s, page, items, compared, found) ==
    [s EXCEPT !.pages = @ + 1,
              !.visited = @ \o IdsOf(items),
              !.compared = @ \o IdsOf(compared),
              !.duplicates_found = @ \o found,
              !.ExclusiveStartKey = page.LastEvaluatedKey,
              !.complete = ~page.more]

\* duplicates_found[:5]
DisplayCap == 5

\* s[:n]: the first n items, all of them when there are fewer; for a
\* negative n all but the last -n items.
FirstN(s, n) ==
    SubSeq(s, 1, IF n < 0 THEN Max(Len(s) + n, 0) ELSE IF Len(s) < n THEN Len(s) ELSE n)

\* duplicates_body counting the entries it displays.
duplicates_body_capped_count(duplicates_found) ==
    [is_duplicate |-> TRUE,
     duplicate_count |-> Len(FirstN(duplicates_found, DisplayCap)),
     duplicates |-> FirstN(duplicates_found, DisplayCap),
     message |-> [text |-> "Found n similar quote(s)", n |-> Len(duplicates_found)]]

duplicates_body(duplicates_found) ==
    [is_duplicate |-> TRUE,
     duplicate_count |-> Len(duplicates_found),
     duplicates |-> FirstN(duplicates_found, DisplayCap),
     message |-> [text |-> "Found n similar quote(s)", n |-> Len(duplicates_found)]]

\* lines 304-310
conflict_response(duplicates_found) ==
    create_response(409, [error |-> "Duplicate quote detected"] @@ duplicates_body(duplicates_found))

\* lines 1053-1066
check_response(duplicates_found) ==
    IF duplicates_found # <<>>
    THEN create_response(200, duplicates_body(duplicates_found))
    ELSE create_response(200, [is_duplicate |-> FALSE, duplicate_count |-> 0,
                               duplicates |-> <<>>, message |-> [text |-> "No duplicates found"]])

\* lines 319-331: the item a create request writes.
new_quote_item(event, quote_id, timestamp) ==
    [id |-> quote_id,
     quote |-> Strip(event.data.quote),
     author |-> Strip(event.data.author),
     tags |-> IF Has(event.data, "tags") THEN event.data.tags.items ELSE <<>>,
     created_at |-> timestamp,
     updated_at |-> timestamp,
     created_by |-> event.username]

(***************************************************************************)
(* handle_create_quote.  Every table request of the handler is one step:   *)
(* each page of the scan, the put_item of the quote, and the get_item and  *)
(* the put_item of update_tags_metadata.                                   *)
(***************************************************************************)
\* The model takes a create request while fewer than MaxCreates of the
\* table's items were written by one (their created_at is no initial "T0").
MaxCreates == 1

Created(t) == SelectSeq(t, LAMBDA item : Get(item, "created_at", "T0") # "T0")

Snapshot == [table |-> table, tags_table |-> tags_table]

NoSnapshot == [table |-> <<>>, tags_table |-> {}]

Finish(p, response, s) ==
    /\ pc' = [pc EXCEPT ![p] = "done"]
    /\ resp' = [resp EXCEPT ![p] = response]
    /\ scan' = [scan EXCEPT ![p] = s]

\* lines 250-272: the admin gate, the parse and the validation.
CreateRequest(p, event) ==
    /\ pc[p] = "idle"
    /\ event.route = "create"
    /\ req' = [req EXCEPT ![p] = event]
    /\ start' = [start EXCEPT ![p] = Snapshot]
    /\ IF ~event.is_admin
       THEN Finish(p, create_response(403, [error |-> "Forbidden", message |-> "Admin access required"]), NewScan)
       ELSE IF ~event.json_ok
       THEN Finish(p, create_response(400, [error |-> "Invalid JSON in request body"]), NewScan)
       ELSE IF validate_quote_data(event.data) # <<>>
       THEN Finish(p, create_response(400, [error |-> "Validation failed",
                                            details |-> validate_quote_data(event.data)]), NewScan)
       ELSE /\ pc' = [pc EXCEPT ![p] = "scan"]
            /\ scan' = [scan EXCEPT ![p] = NewScan]
            /\ UNCHANGED resp
    /\ UNCHANGED <<table, tags_table, call>>

CreateBegin(p, event) ==
    /\ Len(Created(table)) < MaxCreates
    /\ CreateRequest(p, event)

\* The keys of the items of an initial table lie IdGap apart.
IdGap == 4

\* The ids of t and the id of the metadata record in their order, between
\* an id below and an id above them.
Keys(t) == IdsOf(PutItem(t, [id |-> METADATA_ID]))

KeyLine(t) == <<Keys(t)[1] - 2 * IdGap>> \o Keys(t) \o <<Keys(t)[Len(Keys(t))] + 2 * IdGap>>

\* uuid.uuid4(): an id no item has.  Its place among the stored keys is
\* arbitrary: one id for every place in the order of the scan that has room
\* for one, ahead of the first item, between two items, or after the last.
NewIds(t) ==
    {(KeyLine(t)[k] + KeyLine(t)[k + 1]) \div 2 :
        k \in {j \in 1..(Len(KeyLine(t)) - 1) : KeyLine(t)[j + 1] - KeyLine(t)[j] >= 2}} \ {NoKey}

\* CreateAfterPage with the write ahead of the conflict response.
CreateAfterPage_writing(p, more, s) ==
    IF more
    THEN /\ scan' = [scan EXCEPT ![p] = s]
         /\ UNCHANGED <<table, pc, resp>>
    ELSE IF s.duplicates_found # <<>>
    THEN /\ Finish(p, conflict_response(s.duplicates_found), s)
         /\ table' = metadata_written(
                         PutItem(table, new_quote_item(req[p], CHOOSE id \in NewIds(table) : TRUE, "T1")),
                         merged_tags(table, new_quote_item(req[p], 0, "T1").tags, FALSE), "T1", FALSE)
    ELSE /\ pc' = [pc EXCEPT ![p] = "put_item"]
         /\ scan' = [scan EXCEPT ![p] = s]
         /\ UNCHANGED <<table, resp>>

\* lines 297-317: after a page, the loop goes on, or ends in the conflict
\* response, or the handler goes on to the write.
CreateAfterPage(p, more, s) ==
    IF more
    THEN /\ scan' = [scan EXCEPT ![p] = s]
         /\ UNCHANGED <<table, pc, resp>>
    ELSE IF s.duplicates_found # <<>>
    THEN /\ Finish(p, conflict_response(s.duplicates_found), s)
         /\ UNCHANGED table
    ELSE /\ pc' = [pc EXCEPT ![p] = "put_item"]
         /\ scan' = [scan EXCEPT ![p] = s]
         /\ UNCHANGED <<table, resp>>

CreateProject(items) == [i \in 1..Len(items) |-> Project(items[i], CreateProjection)]

CreatePage(p, page, items, quote_text, author) ==
    CreateAfterPage(p, page.more,
                    after_page(scan[p], page, items, create_compared(items),
                               create_page_duplicates(items, quote_text, author)))

CreateRequestPage(p, page) ==
    CreatePage(p, page, CreateProject(page.Items), Strip(req[p].data.quote),
               Strip(req[p].data.author))

\* lines 279-312: one page request that succeeds, the loop over its items,
\* and what follows the loop when the page is the last one.
CreateScanPage(p) ==
    /\ pc[p] = "scan"
    /\ req[p].route = "create"
    /\ CreateRequestPage(p, ScanPage(table, scan[p].ExclusiveStartKey))
    /\ UNCHANGED <<tags_table, req, start, call>>

\* CreateScanFails answering from the matches of the pages read so far.
CreateScanFails_partial(p) ==
    /\ pc[p] = "scan"
    /\ req[p].route = "create"
    /\ IF scan[p].duplicates_found # <<>>
       THEN Finish(p, conflict_response(scan[p].duplicates_found),
                   [scan[p] EXCEPT !.pages = @ + 1, !.failed = TRUE])
       ELSE /\ pc' = [pc EXCEPT ![p] = "put_item"]
            /\ scan' = [scan EXCEPT ![p].pages = @ + 1, ![p].failed = TRUE]
            /\ UNCHANGED resp
    /\ UNCHANGED <<table, tags_table, req, start, call>>

\* lines 314-317: a page request raises; the handler goes on to the write.
CreateScanFails(p) ==
    /\ pc[p] = "scan"
    /\ req[p].route = "create"
    /\ pc' = [pc EXCEPT ![p] = "put_item"]
    /\ scan' = [scan EXCEPT ![p].pages = @ + 1, ![p].failed = TRUE]
    /\ UNCHANGED <<table, tags_table, req, resp, start, call>>

\* lines 319-334: the item is built and put_item writes it.
CreatePutItem(p, quote_id, timestamp) ==
    /\ pc[p] = "put_item"
    /\ table' = PutItem(table, new_quote_item(req[p], quote_id, timestamp))
    /\ scan' = [scan EXCEPT ![p].quote_item = new_quote_item(req[p], quote_id, timestamp)]
    /\ pc' = [pc EXCEPT ![p] = "get_tags"]
    /\ UNCHANGED <<tags_table, req, resp, start, call>>

\* lines 334 and 346-348: put_item raises; nothing is written and the outer
\* handler answers 500.
CreatePutItemFails(p) ==
    /\ pc[p] = "put_item"
    /\ Finish(p, create_response(500, [error |-> "Internal server error"]),
              [scan[p] EXCEPT !.put_failed = TRUE])
    /\ UNCHANGED <<table, tags_table, req, start, call>>

\* lines 143-155: update_tags_metadata takes its timestamp, reads the
\* metadata record and merges the tags of the new quote in; when get_item
\* raises the merge starts from no tag.
UpdateTagsMetadataGet(p, timestamp, raises) ==
    /\ pc[p] = "get_tags"
    /\ scan' = [scan EXCEPT ![p].current_tags = merged_tags(table, scan[p].quote_item.tags, raises),
                            ![p].timestamp = timestamp]
    /\ pc' = [pc EXCEPT ![p] = "put_tags"]
    /\ UNCHANGED <<table, tags_table, req, resp, start, call>>

\* lines 157-168 and 339-342: the metadata record is written back, or
\* put_item raises and nothing is written; the request is answered 201.
UpdateTagsMetadataPut(p, raises) ==
    /\ pc[p] = "put_tags"
    /\ table' = metadata_written(table, scan[p].current_tags, scan[p].timestamp, raises)
    /\ Finish(p, create_response(201, [message |-> "Quote created successfully",
                                       quote |-> scan[p].quote_item]), scan[p])
    /\ UNCHANGED <<tags_table, req, start, call>>

(***************************************************************************)
(* handle_check_duplicate.                                                 *)
(***************************************************************************)
\* lines 992-1010
CheckBegin(p, event) ==
    /\ pc[p] = "idle"
    /\ event.route = "check"
    /\ req' = [req EXCEPT ![p] = event]
    /\ start' = [start EXCEPT ![p] = Snapshot]
    /\ IF ~event.is_admin
       THEN Finish(p, create_response(403, [error |-> "Forbidden", message |-> "Admin access required"]), NewScan)
       ELSE IF ~event.json_ok
       THEN Finish(p, create_response(400, [error |-> "Invalid JSON in request body"]), NewScan)
       ELSE IF Strip(Get(event.data, "quote", <<>>)) = <<>>
               \/ Strip(Get(event.data, "author", <<>>)) = <<>>
       THEN Finish(p, create_response(400, [error |-> "Quote and author are required"]), NewScan)
       ELSE /\ pc' = [pc EXCEPT ![p] = "scan"]
            /\ scan' = [scan EXCEPT ![p] = NewScan]
            /\ UNCHANGED resp
    /\ UNCHANGED <<table, tags_table, call>>

\* CheckAfterPage saving the candidate when no duplicate was found.
CheckAfterPage_saving(p, more, s) ==
    IF more
    THEN /\ scan' = [scan EXCEPT ![p] = s]
         /\ UNCHANGED <<table, pc, resp>>
    ELSE /\ Finish(p, check_response(s.duplicates_found), s)
         /\ IF s.duplicates_found # <<>>
            THEN UNCHANGED table
            ELSE table' = PutItem(table, [id |-> CHOOSE id \in NewIds(table) : TRUE,
                                          quote |-> Strip(req[p].data.quote),
                                          author |-> Strip(req[p].data.author)])

\* lines 1042-1066: after a page, the loop goes on, or ends in the response.
CheckAfterPage(p, more, s) ==
    IF more
    THEN /\ scan' = [scan EXCEPT ![p] = s]
         /\ UNCHANGED <<table, pc, resp>>
    ELSE /\ Finish(p, check_response(s.duplicates_found), s)
         /\ UNCHANGED table

CheckPage(p, page, quote_text, author) ==
    CheckAfterPage(p, page.more,
                   after_page(scan[p], page, page.Items, check_compared(page.Items),
                              check_page_duplicates(page.Items, quote_text, author)))

\* lines 1016-1066: one page request that succeeds, the loop over its items,
\* and the response when the page is the last one.
CheckScanPage(p) ==
    /\ pc[p] = "scan"
    /\ req[p].route = "check"
    /\ CheckPage(p, ScanPage(table, scan[p].ExclusiveStartKey),
                 Strip(Get(req[p].data, "quote", <<>>)),
                 Strip(Get(req[p].data, "author", <<>>)))
    /\ UNCHANGED <<tags_table, req, start, call>>

\* CheckScanFails reporting the matches of the pages read so far.
CheckScanFails_reporting(p) ==
    /\ pc[p] = "scan"
    /\ req[p].route = "check"
    /\ Finish(p, check_response(scan[p].duplicates_found),
              [scan[p] EXCEPT !.pages = @ + 1, !.failed = TRUE])
    /\ UNCHANGED <<table, tags_table, req, start, call>>

\* lines 1047-1049
CheckScanFails(p) ==
    /\ pc[p] = "scan"
    /\ req[p].route = "check"
    /\ Finish(p, create_response(500, [error |-> "Failed to check for duplicates"]),
              [scan[p] EXCEPT !.pages = @ + 1, !.failed = TRUE])
    /\ UNCHANGED <<table, tags_table, req, start, call>>

\* The record of an invocation that began after p was answered, once p has
\* returned.
Unanswered(s, p) == IF Has(s, "answered") THEN [s EXCEPT !.answered = @ \ {p}] ELSE s

\* The response is returned and the invocation ends.
Return(p) ==
    /\ pc[p] = "done"
    /\ pc' = [pc EXCEPT ![p] = "idle"]
    /\ req' = [req EXCEPT ![p] = NoEvent]
    /\ scan' = [scan EXCEPT ![p] = NewScan]
    /\ resp' = [resp EXCEPT ![p] = NoResponse]
    /\ start' = [q \in Procs |-> IF q = p THEN NoSnapshot ELSE Unanswered(start[q], p)]
    /\ UNCHANGED <<table, tags_table, call>>

(***************************************************************************)
(* The texts, the stored corpus and the events of the model.               *)
(*   "aaa" and "aaa aaa": the second as candidate matches the first        *)
(*   (word overlap), the first as candidate does not match the second;     *)
(*   "x" is an author, "." an author that normalizes to the empty string.  *)
(***************************************************************************)
QuoteA == <<97, 97, 97>>

QuoteB == <<97, 97, 97, SPACE, 97, 97, 97>>

AuthorX == <<120>>

AuthorDot == <<DOT>>

TagT == <<116>>

TagU == <<117>>

SeqsUpTo(S, n) == UNION {[1..k -> S] : k \in 0..n}

\* The attributes of a stored quote, the id apart.
StoredQuote(quote, author) ==
    [quote |-> quote, author |-> author, tags |-> <<>>,
     created_at |-> "T0", updated_at |-> "T0", created_by |-> "admin"]

\* Items of the table that are no complete quote: one with no author
\* attribute, and a flag record with neither quote nor author
\* (oauth_callback_handler.py, store_oauth_success_flag).
AuthorlessQuote == [quote |-> QuoteA, created_at |-> "T0"]

FlagRecord == [token_type |-> "oauth_success", user_email |-> "e"]

MetadataRecord == [id |-> METADATA_ID, tags |-> <<>>, updated_at |-> "T0"]

RichPool == {StoredQuote(QuoteA, AuthorX), AuthorlessQuote, FlagRecord}

\* Initial corpora hold at most MaxStored items, complete quotes or not, or
\* at most MaxCorpus complete quotes, "aaa" and "aaa aaa" in turn.
MaxStored == 1

MaxCorpus == 6

\* The items of an initial table scanned after the metadata record, and
\* those scanned ahead of it.
WithIds(attrs) == [i \in 1..Len(attrs) |-> [id |-> i * IdGap] @@ attrs[i]]

WithIdsBefore(attrs) == [i \in 1..Len(attrs) |-> [id |-> (i - Len(attrs) - 1) * IdGap] @@ attrs[i]]

\* The tables that hold the items of a corpus: without a metadata record,
\* with the record scanned first, and with the record scanned last.
Stored(c) == {WithIds(c), <<MetadataRecord>> \o WithIds(c), WithIdsBefore(c) \o <<MetadataRecord>>}

LongCorpora ==
    {[i \in 1..n |-> IF (i + k) % 2 = 0 THEN StoredQuote(QuoteA, AuthorX) ELSE StoredQuote(QuoteB, AuthorX)] :
        n \in 1..MaxCorpus, k \in 0..1}

InitTables ==
    UNION {Stored(c) : c \in SeqsUpTo(RichPool, MaxStored)}
    \cup {WithIds(c) : c \in LongCorpora} \cup {<<MetadataRecord>> \o WithIds(c) : c \in LongCorpora}

\* Values of a required field that are no text: the key is missing, the
\* text is empty, the text is whitespace.
Blanks == {Absent, Given(<<>>), Given(<<SPACE>>)}

ReqTags == {Absent, Given(TagList(<<TagT>>)), Given(TagList(<<<<SPACE>>>>)), Given(NotAList)}

\* The bodies with one blank field, and a body with two faults.
BlankBodies ==
    {Body(q, Given(AuthorX), Absent) : q \in Blanks}
    \cup {Body(Given(QuoteA), a, Absent) : a \in Blanks}
    \cup {Body(Given(<<SPACE>>), Given(AuthorX), Given(NotAList))}

\* Create requests: the first quote with tags, valid or not, and the second
\* without.  Check requests: the two quotes by the author, and the first by
\* an author that normalizes to the empty text.  Both: the bodies with a
\* blank field, a caller who is no admin, and a body that does not parse.
Events ==
    {Event("create", TRUE, TRUE, Body(Given(QuoteA), Given(AuthorX), t)) : t \in ReqTags \ {Absent}}
    \cup {Event("create", TRUE, TRUE, Body(Given(QuoteB), Given(AuthorX), Absent))}
    \cup {Event("check", TRUE, TRUE, Body(Given(QuoteA), Given(a), Absent)) : a \in {AuthorX, AuthorDot}}
    \cup {Event("check", TRUE, TRUE, Body(Given(QuoteB), Given(AuthorX), Absent))}
    \cup {Event(r, TRUE, TRUE, b) : r \in {"create", "check"}, b \in BlankBodies}
    \cup {Event(r, FALSE, TRUE, Body(Given(QuoteA), Given(AuthorX), Absent)) : r \in {"create", "check"}}
    \cup {Event(r, TRUE, FALSE, <<>>) : r \in {"create", "check"}}

\* datetime.utcnow(): the time of the write.
Timestamps == {"T1"}

NoCall == [fn |-> "none", args |-> <<>>, done |-> FALSE, texts |-> <<>>,
           similarity |-> Ratio(0, 1), verdict |-> <<FALSE, NoReason>>]

InitProcs ==
    /\ pc = [p \in Procs |-> "idle"]
    /\ req = [p \in Procs |-> NoEvent]
    /\ scan = [p \in Procs |-> NewScan]
    /\ resp = [p \in Procs |-> NoResponse]
    /\ start = [p \in Procs |-> NoSnapshot]

Init ==
    /\ table \in InitTables
    /\ tags_table = {TagT}
    /\ InitProcs
    /\ call = NoCall

\* One invocation at a time (spec.md section 5).
Main == "p1"

\* The page requests of the scan and the put_item of the quote return or
\* raise; the two requests of update_tags_metadata return (SpecConc has
\* them raise as well).
Next ==
    \/ \E event \in Events : CreateBegin(Main, event)
    \/ CreateScanPage(Main)
    \/ CreateScanFails(Main)
    \/ \E id \in NewIds(table), ts \in Timestamps : CreatePutItem(Main, id, ts)
    \/ CreatePutItemFails(Main)
    \/ \E ts \in Timestamps : UpdateTagsMetadataGet(Main, ts, FALSE)
    \/ UpdateTagsMetadataPut(Main, FALSE)
    \/ \E event \in Events : CheckBegin(Main, event)
    \/ CheckScanPage(Main)
    \/ CheckScanFails(Main)
    \/ Return(Main)

Spec == Init /\ [][Next]_vars

(***************************************************************************)
(* The pure functions of the detector, applied to inputs drawn from        *)
(* bounded sets: call holds the function, its arguments and, once the call *)
(* is done, its result; texts holds the results of normalize_text, applied *)
(* to the argument and then to its own result.                             *)
(***************************************************************************)
Calls(fn, argss) ==
    {[fn |-> fn, args |-> args, done |-> FALSE, texts |-> <<>>,
      similarity |-> Ratio(0, 1), verdict |-> <<FALSE, NoReason>>] : args \in argss}

InitStores ==
    /\ table = <<>>
    /\ tags_table = {}
    /\ InitProcs

Rep(c, n) == [i \in 1..n |-> c]

RECURSIVE Join(_)
Join(words) ==
    IF Len(words) = 1 THEN words[1]
    ELSE words[1] \o <<SPACE>> \o Join(Tail(words))

\* calculate_similarity: every text of at most MaxSimLen characters among
\* a, b and the space, and every text of one to MaxWords words among aaa and
\* bbb, joined by single spaces.
MaxSimLen == 4

MaxWords == 3

SimTexts ==
    SeqsUpTo({97, 98, SPACE}, MaxSimLen)
    \cup {Join(w) : w \in SeqsUpTo({<<97, 97, 97>>, <<98, 98, 98>>}, MaxWords) \ {<<>>}}

InitSim ==
    /\ InitStores
    /\ call \in Calls("calculate_similarity", SimTexts \X SimTexts)

CalculateSimilarity ==
    /\ call.fn = "calculate_similarity"
    /\ ~call.done
    /\ call' = [call EXCEPT !.done = TRUE,
                            !.similarity = calculate_similarity(call.args[1], call.args[2])]
    /\ UNCHANGED <<table, tags_table, pc, req, scan, resp, start>>

NextSim == CalculateSimilarity

SpecSim == InitSim /\ [][NextSim]_vars

\* are_similar_quotes: the texts of at most MaxClassifyLen characters among
\* A and the period, and texts of 10 and 20 characters that differ in one,
\* two or three places, which put a score on a threshold (9/10, 17/20,
\* 19/20) or next to it.
MaxClassifyLen == 1

BoundaryTexts ==
    {<<97>>, QuoteA, QuoteB,
     Rep(97, 10), Rep(97, 9) \o <<98>>,
     Rep(97, 20), Rep(97, 19) \o <<98>>, Rep(97, 18) \o <<98, 98>>,
     Rep(97, 17) \o <<98, 98, 98>>}

ClassifyTexts == SeqsUpTo({65, DOT}, MaxClassifyLen) \cup BoundaryTexts

InitClassify ==
    /\ InitStores
    /\ call \in Calls("are_similar_quotes",
                      ClassifyTexts \X ClassifyTexts \X ClassifyTexts \X ClassifyTexts)

AreSimilarQuotes ==
    /\ call.fn = "are_similar_quotes"
    /\ ~call.done
    /\ call' = [call EXCEPT !.done = TRUE,
                            !.verdict = are_similar_quotes(call.args[1], call.args[2],
                                                           call.args[3], call.args[4])]
    /\ UNCHANGED <<table, tags_table, pc, req, scan, resp, start>>

NextClassify == AreSimilarQuotes

SpecClassify == InitClassify /\ [][NextClassify]_vars

\* normalize_text: every text of at most MaxNormLen characters among a, A,
\* the space, the tab, the period and the ellipsis glyph; every text of at
\* most MaxGlyphLen characters among a, the straight and the curly quotes
\* and the two dashes; and a text that holds the pattern line 27 replaces.
\* The function is applied MaxPasses times, first to the argument and then
\* to its own result.
MaxNormLen == 3

MaxGlyphLen == 2

MaxPasses == 2

Glyphs == {LDQUOTE, RDQUOTE, LSQUOTE, RSQUOTE, EM_DASH, EN_DASH}

NormTexts ==
    SeqsUpTo({97, 65, SPACE, TAB, DOT, ELLIPSIS}, MaxNormLen)
    \cup SeqsUpTo({97, DQUOTE, SQUOTE} \cup Glyphs, MaxGlyphLen)
    \cup {<<97>> \o ApostrophePattern \o <<97>>}

InitNorm ==
    /\ InitStores
    /\ call \in Calls("normalize_text", {<<text>> : text \in NormTexts})

LastText(c) == IF c.texts = <<>> THEN c.args[1] ELSE c.texts[Len(c.texts)]

NormalizeText ==
    /\ call.fn = "normalize_text"
    /\ Len(call.texts) < MaxPasses
    /\ call' = [call EXCEPT !.done = TRUE,
                            !.texts = Append(@, normalize_text(LastText(call)))]
    /\ UNCHANGED <<table, tags_table, pc, req, scan, resp, start>>

NextNorm == NormalizeText

SpecNorm == InitNorm /\ [][NextNorm]_vars

(***************************************************************************)
(* are_similar_quotes on the worked examples of spec.md section 8, on      *)
(* texts that differ in letter case and trailing periods, and on texts     *)
(* with characters appended.                                               *)
(***************************************************************************)
\* "Be yourself"
BeYourself ==
    <<66, 101, 32, 121, 111, 117, 114, 115, 101, 108, 102>>

\* "Oscar Wilde"
OscarWilde ==
    <<79, 115, 99, 97, 114, 32, 87, 105, 108, 100, 101>>

\* "The only way to do great work is to love what you do"
JobsQuote ==
    <<84, 104, 101, 32, 111, 110, 108, 121, 32, 119, 97, 121, 32, 116, 111,
      32, 100, 111, 32, 103, 114, 101, 97, 116, 32, 119, 111, 114, 107, 32,
      105, 115, 32, 116, 111, 32, 108, 111, 118, 101, 32, 119, 104, 97,
      116, 32, 121, 111, 117, 32, 100, 111>>

\* "Steve Jobs"
SteveJobs ==
    <<83, 116, 101, 118, 101, 32, 74, 111, 98, 115>>

\* "Life is what happens when you're busy making other plans"
LennonCandidate ==
    <<76, 105, 102, 101, 32, 105, 115, 32, 119, 104, 97, 116, 32, 104, 97,
      112, 112, 101, 110, 115, 32, 119, 104, 101, 110, 32, 121, 111, 117,
      39, 114, 101, 32, 98, 117, 115, 121, 32, 109, 97, 107, 105, 110, 103,
      32, 111, 116, 104, 101, 114, 32, 112, 108, 97, 110, 115>>

\* "Life is what happens to you while you're busy making other plans"
LennonExisting ==
    <<76, 105, 102, 101, 32, 105, 115, 32, 119, 104, 97, 116, 32, 104, 97,
      112, 112, 101, 110, 115, 32, 116, 111, 32, 121, 111, 117, 32, 119,
      104, 105, 108, 101, 32, 121, 111, 117, 39, 114, 101, 32, 98, 117,
      115, 121, 32, 109, 97, 107, 105, 110, 103, 32, 111, 116, 104, 101,
      114, 32, 112, 108, 97, 110, 115>>

\* "John Lennon"
JohnLennon ==
    <<74, 111, 104, 110, 32, 76, 101, 110, 110, 111, 110>>

\* classify("Be yourself.", "Oscar Wilde", "be yourself", "oscar wilde.")
WildeCall ==
    <<BeYourself \o <<DOT>>, OscarWilde, Lower(BeYourself), Lower(OscarWilde) \o <<DOT>>>>

\* The second text ends with "!!".
JobsCall == <<JobsQuote, SteveJobs, JobsQuote \o <<33, 33>>, SteveJobs>>

LennonCall == <<LennonCandidate, JohnLennon, LennonExisting, JohnLennon>>

\* A text as written and in lower case, followed by up to MaxDots periods.
MaxDots == 1

Variants(base) == {v \o Rep(DOT, k) : v \in {base, Lower(base)}, k \in 0..MaxDots}

CaseCalls(quote, author) ==
    Variants(quote) \X Variants(author) \X Variants(quote) \X Variants(author)

\* A candidate, and the candidate followed by up to MaxSuffix characters
\* among the exclamation mark, the period and the space; the candidates have
\* the lengths at which 1, 2 or 3 appended characters put the quotient of
\* the lengths on 0.90 or next to it.
MaxSuffix == 3

AppendBases ==
    {Rep(97, n) : n \in {1, 8, 9, 17, 18, 26, 27}} \cup {Rep(97, 8) \o <<DOT>>, JobsQuote}

AppendCalls ==
    {<<q, a, q \o suffix, a>> :
        q \in AppendBases, a \in {AuthorX, SteveJobs},
        suffix \in SeqsUpTo({33, DOT, SPACE}, MaxSuffix)}

InitCases ==
    /\ InitStores
    /\ call \in Calls("are_similar_quotes",
                      {WildeCall, JobsCall, LennonCall}
                      \cup CaseCalls(BeYourself, OscarWilde)
                      \cup CaseCalls(<<65, SPACE>>, AuthorX)
                      \cup AppendCalls)

SpecCases == InitCases /\ [][NextClassify]_vars

(***************************************************************************)
(* Create requests in sequence (SpecSeq): one invocation at a time, no     *)
(* page request of the scan failing, from a table in which no two quotes   *)
(* are exact matches of each other.  The put_item of the quote returns or  *)
(* raises; the two requests of update_tags_metadata return.  The texts are *)
(* "aaa" and "aaa aaa" with variants in letter case, surrounding spaces    *)
(* and a trailing period.                                                  *)
(***************************************************************************)
\* "AAA"
QuoteUpper == <<65, 65, 65>>

\* "X"
AuthorUpper == <<88>>

SeqQuotes == {QuoteA, QuoteUpper, QuoteA \o <<DOT>>, <<SPACE>> \o QuoteA, QuoteB}

SeqAuthors == {AuthorX, AuthorUpper, AuthorX \o <<DOT>>}

\* Two records with a quote and an author whose normalized quotes are equal
\* and whose normalized authors are equal.
exact_match_pair(a, b) ==
    /\ Has(a, "quote") /\ Has(a, "author") /\ Has(b, "quote") /\ Has(b, "author")
    /\ normalize_text(a.quote) = normalize_text(b.quote)
    /\ normalize_text(a.author) = normalize_text(b.author)

NoExactPairs(t) ==
    \A i, j \in 1..Len(t) : i < j => ~exact_match_pair(t[i], t[j])

\* The model takes up to MaxSeqCreates writing requests in a row, from a
\* table of at most MaxSeqStored records.
MaxSeqCreates == 2

MaxSeqStored == 2

SeqPool ==
    {StoredQuote(q, a) : q \in {QuoteA, QuoteUpper, QuoteB}, a \in {AuthorX, AuthorUpper}}
    \cup {FlagRecord}

SeqTables ==
    {t \in {WithIds(c) : c \in SeqsUpTo(SeqPool, MaxSeqStored)}
              \cup {<<MetadataRecord>> \o WithIds(c) : c \in SeqsUpTo(SeqPool, MaxSeqStored)} :
        NoExactPairs(t)}

SeqEvents ==
    {Event("create", TRUE, TRUE, Body(Given(q), Given(a), Absent)) :
        q \in SeqQuotes, a \in SeqAuthors}

InitSeq ==
    /\ table \in SeqTables
    /\ tags_table = {TagT}
    /\ InitProcs
    /\ call = NoCall

SeqCreateBegin(p, event) ==
    /\ Len(Created(table)) < MaxSeqCreates
    /\ CreateRequest(p, event)

NextSeq ==
    \/ \E event \in SeqEvents : SeqCreateBegin(Main, event)
    \/ CreateScanPage(Main)
    \/ \E id \in NewIds(table), ts \in Timestamps : CreatePutItem(Main, id, ts)
    \/ CreatePutItemFails(Main)
    \/ \E ts \in Timestamps : UpdateTagsMetadataGet(Main, ts, FALSE)
    \/ UpdateTagsMetadataPut(Main, FALSE)
    \/ Return(Main)

SpecSeq == InitSeq /\ [][NextSeq]_vars

(***************************************************************************)
(* Concurrent create requests (SpecConc): two invocations of the handler   *)
(* run at once and their table requests interleave: between any two        *)
(* requests of an invocation the other invocation may act.  Every page     *)
(* request of the scan returns; the put_item of the quote and the two      *)
(* requests of update_tags_metadata return or raise.                       *)
(***************************************************************************)
\* The model takes requests while fewer than MaxConcCreates were written,
\* and the initial table holds at most MaxConcStored records.
MaxConcCreates == 1

MaxConcStored == 3

\* The tables of quotes, and the empty table with a metadata record that
\* holds the tag u.
ConcTables ==
    {WithIds(c) : c \in SeqsUpTo({StoredQuote(QuoteB, AuthorUpper), FlagRecord}, MaxConcStored)}
    \cup {<<[MetadataRecord EXCEPT !.tags = <<TagU>>]>>}

ConcEvents ==
    {Event("create", TRUE, TRUE, Body(Given(q), Given(a), Absent)) :
        q \in {QuoteA, QuoteUpper}, a \in {AuthorX}}

InitConc ==
    /\ table \in ConcTables
    /\ tags_table = {TagT}
    /\ InitProcs
    /\ call = NoCall

ConcCreateBegin(p, event) ==
    /\ Len(Created(table)) < MaxConcCreates
    /\ CreateRequest(p, event)

NextConc ==
    \/ \E p \in Procs, event \in ConcEvents : ConcCreateBegin(p, event)
    \/ \E p \in Procs : CreateScanPage(p)
    \/ \E p \in Procs, id \in NewIds(table), ts \in Timestamps : CreatePutItem(p, id, ts)
    \/ \E p \in Procs : CreatePutItemFails(p)
    \/ \E p \in Procs, ts \in Timestamps, raises \in BOOLEAN : UpdateTagsMetadataGet(p, ts, raises)
    \/ \E p \in Procs, raises \in BOOLEAN : UpdateTagsMetadataPut(p, raises)
    \/ \E p \in Procs : Return(p)

SpecConc == InitConc /\ [][NextConc]_vars

(***************************************************************************)
(* The other routes of the admin handler.  A step is one request to a      *)
(* table with the code that follows it up to the next request or to the    *)
(* response, so that the requests of another invocation can come between   *)
(* two requests of a handler.  The locals of an invocation carry ops, the  *)
(* table requests it issued, in order, and raised, whether one of them     *)
(* raised.                                                                 *)
(***************************************************************************)
Locals(ops) == [ops |-> ops, raised |-> FALSE]

Issue(s, op) == [s EXCEPT !.ops = Append(@, op)]

\* A request that raised.
Raise(s, op) == [s EXCEPT !.ops = Append(@, op), !.raised = TRUE]

\* A request that returns or raises.
Request(s, op, raises) == IF raises THEN Raise(s, op) ELSE Issue(s, op)

Forbidden == create_response(403, [error |-> "Forbidden", message |-> "Admin access required"])

ServerError == create_response(500, [error |-> "Internal server error"])

\* The invocations that have their response and have not returned yet.
Answered == {q \in Procs : pc[q] = "done"}

\* The event is taken; the tables are recorded as they are, with the
\* invocations that were answered before this one began.
Begin(p, event, route) ==
    /\ pc[p] = "idle"
    /\ event.route = route
    /\ req' = [req EXCEPT ![p] = event]
    /\ start' = [start EXCEPT ![p] = Snapshot @@ [answered |-> Answered]]

\* The handler goes on to its next request.
Enter(p, label, s) ==
    /\ pc' = [pc EXCEPT ![p] = label]
    /\ scan' = [scan EXCEPT ![p] = s]
    /\ UNCHANGED resp

(***************************************************************************)
(* tags_table.scan: one page.  The tags table holds one item per tag, its  *)
(* key the tag; the model renders the order of the scan as the order of    *)
(* the tags.  NoTagKey stands for a request without ExclusiveStartKey.     *)
(***************************************************************************)
NoTagKey == <<>>

TagsAfter(tt, key) == SelectSeq(Sorted(tt), LAMBDA x : key = NoTagKey \/ LexLess(key, x))

TagsPageOf(rest, n) ==
    [Items |-> SubSeq(rest, 1, n),
     more |-> n < Len(rest),
     LastEvaluatedKey |-> IF n < Len(rest) THEN rest[n] ELSE NoTagKey]

TagsScanPage(tt, key) ==
    TagsPageOf(TagsAfter(tt, key),
               IF Len(TagsAfter(tt, key)) < PageSize THEN Len(TagsAfter(tt, key)) ELSE PageSize)

\* lines 177-180 and 599-602: the tag names of the items of a page.
tag_names(items) == {tag \in Range(items) : tag # <<>>}

item_tags(item) == Get(item, "tags", <<>>)

\* lines 202-207: the occurrences of a tag in the tags of the items of a
\* page.
RECURSIVE tag_usage_count(_, _)
tag_usage_count(items, name) ==
    IF items = <<>> THEN 0
    ELSE Cardinality({k \in 1..Len(item_tags(Head(items))) : item_tags(Head(items))[k] = name})
             + tag_usage_count(Tail(items), name)

\* lines 214-220
tags_with_counts(names, counts) ==
    [i \in 1..Len(names) |->
        [name |-> names[i], tag |-> names[i], quote_count |-> counts[names[i]]]]

(***************************************************************************)
(* get_tags_metadata, called by handle_get_tags, handle_add_tag and        *)
(* handle_update_tag: the pages of the tags table, then the pages of the   *)
(* quotes table, one request a step.                                       *)
(***************************************************************************)
MetadataRoutes == {"get_tags", "add_tag", "update_tag"}

MetadataLocals ==
    [ops |-> <<>>, raised |-> FALSE, LastEvaluatedKey |-> NoTagKey, tag_names |-> {},
     ExclusiveStartKey |-> NoKey, tag_usage_counts |-> <<>>]

\* lines 548-562
handle_get_tags_response(tags) == create_response(200, [tags |-> tags, count |-> Len(tags)])

\* lines 554-558, 673-679 and 727-730: the caller with the list returned.
\* set(get_tags_metadata()) raises TypeError when the list holds a dict,
\* which handle_add_tag and handle_update_tag answer with 500; on the empty
\* list the set is empty: handle_add_tag goes on to write, handle_update_tag
\* does not find the old tag.
AfterGetTagsMetadata(p, tags, s) ==
    IF req[p].route = "get_tags" THEN Finish(p, handle_get_tags_response(tags), s)
    ELSE IF tags # <<>> THEN Finish(p, ServerError, s)
    ELSE IF req[p].route = "add_tag" THEN Enter(p, "add_tag_put", s)
    ELSE Finish(p, create_response(404, [error |-> <<"Tag not found", req[p].pathParameters.tag>>]), s)

\* lines 177-193: the names of a page are added; after the last page the
\* counts start at 0.
TagsTableScanned(p, page, names) ==
    IF page.more
    THEN Enter(p, "tags_scan", [Issue(scan[p], "tags_table.scan") EXCEPT
                                   !.LastEvaluatedKey = page.LastEvaluatedKey, !.tag_names = names])
    ELSE Enter(p, "quotes_scan", [Issue(scan[p], "tags_table.scan") EXCEPT
                                     !.LastEvaluatedKey = NoTagKey, !.tag_names = names,
                                     !.tag_usage_counts = [n \in names |-> 0]])

\* lines 174 and 184: one page request to the tags table.
TagsTableScan(p) ==
    /\ pc[p] = "tags_scan"
    /\ TagsTableScanned(p, TagsScanPage(tags_table, scan[p].LastEvaluatedKey),
                        scan[p].tag_names
                            \cup tag_names(TagsScanPage(tags_table, scan[p].LastEvaluatedKey).Items))
    /\ UNCHANGED <<table, tags_table, req, start, call>>

\* lines 202-223: the usage of the page is counted; after the last page the
\* list is built and returned.
QuotesScanned(p, page, counts) ==
    IF page.more
    THEN Enter(p, "quotes_scan", [Issue(scan[p], "table.scan") EXCEPT
                                     !.ExclusiveStartKey = page.LastEvaluatedKey,
                                     !.tag_usage_counts = counts])
    ELSE AfterGetTagsMetadata(p, tags_with_counts(Sorted(scan[p].tag_names), counts),
                              [Issue(scan[p], "table.scan") EXCEPT !.tag_usage_counts = counts])

\* line 200: one page request to the quotes table.
QuotesScan(p) ==
    /\ pc[p] = "quotes_scan"
    /\ QuotesScanned(p, ScanPage(table, scan[p].ExclusiveStartKey),
                     [n \in scan[p].tag_names |->
                         scan[p].tag_usage_counts[n]
                             + tag_usage_count(ScanPage(table, scan[p].ExclusiveStartKey).Items, n)])
    /\ UNCHANGED <<table, tags_table, req, start, call>>

\* lines 225-227: a request raises and get_tags_metadata returns the empty
\* list.
GetTagsMetadataFails(p) ==
    /\ pc[p] \in {"tags_scan", "quotes_scan"}
    /\ AfterGetTagsMetadata(p, <<>>, Raise(scan[p], IF pc[p] = "tags_scan" THEN "tags_table.scan"
                                                    ELSE "table.scan"))
    /\ UNCHANGED <<table, tags_table, req, start, call>>

\* lines 548-552
GetTags(p, event) ==
    /\ Begin(p, event, "get_tags")
    /\ IF ~event.is_admin
       THEN Finish(p, Forbidden, Locals(<<>>))
       ELSE Enter(p, "tags_scan", MetadataLocals)
    /\ UNCHANGED <<table, tags_table, call>>

\* lines 659-671
AddTag(p, event) ==
    /\ Begin(p, event, "add_tag")
    /\ IF ~event.is_admin
       THEN Finish(p, Forbidden, Locals(<<>>))
       ELSE IF ~event.json_ok
       THEN Finish(p, create_response(400, [error |-> "Invalid JSON in request body"]), Locals(<<>>))
       ELSE IF Strip(Get(event.data, "tag", <<>>)) = <<>>
       THEN Finish(p, create_response(400, [error |-> "Tag name is required"]), Locals(<<>>))
       ELSE Enter(p, "tags_scan", MetadataLocals)
    /\ UNCHANGED <<table, tags_table, call>>

\* lines 679-703: the metadata record of the quotes table is replaced by one
\* that holds the new tag; when put_item raises nothing is written and the
\* handler answers 500.
AddTagPutItem(p, timestamp, raises) ==
    /\ pc[p] = "add_tag_put"
    /\ IF raises
       THEN Finish(p, ServerError, Raise(scan[p], "table.put_item")) /\ UNCHANGED table
       ELSE /\ table' = PutItem(table, [id |-> METADATA_ID, tags |-> <<Strip(req[p].data.tag)>>,
                                        updated_at |-> timestamp])
            /\ Finish(p, create_response(201, [message |-> <<"Successfully added tag", Strip(req[p].data.tag)>>,
                                               tag |-> Strip(req[p].data.tag),
                                               all_tags |-> <<Strip(req[p].data.tag)>>]),
                      Issue(scan[p], "table.put_item"))
    /\ UNCHANGED <<tags_table, req, start, call>>

\* lines 705-724
UpdateTag(p, event) ==
    /\ Begin(p, event, "update_tag")
    /\ IF ~event.is_admin
       THEN Finish(p, Forbidden, Locals(<<>>))
       ELSE IF Get(event.pathParameters, "tag", <<>>) = <<>>
       THEN Finish(p, create_response(400, [error |-> "Tag name is required in path"]), Locals(<<>>))
       ELSE IF ~event.json_ok
       THEN Finish(p, create_response(400, [error |-> "Invalid JSON in request body"]), Locals(<<>>))
       ELSE IF Strip(Get(event.data, "tag", <<>>)) = <<>>
       THEN Finish(p, create_response(400, [error |-> "New tag name is required"]), Locals(<<>>))
       ELSE IF event.pathParameters.tag = Strip(event.data.tag)
       THEN Finish(p, create_response(400, [error |-> "New tag name must be different from old tag name"]),
                   Locals(<<>>))
       ELSE Enter(p, "tags_scan", MetadataLocals)
    /\ UNCHANGED <<table, tags_table, call>>

(***************************************************************************)
(* handle_cleanup_unused_tags: the pages of the tags table, one page of    *)
(* the quotes table (get_used_tags), then one delete_item for each unused  *)
(* tag, in the order in which the set is iterated.                         *)
(***************************************************************************)
CleanupLocals ==
    [ops |-> <<>>, raised |-> FALSE, LastEvaluatedKey |-> NoTagKey, all_tags |-> {}, used_tags |-> {},
     unused_tags |-> {}, to_remove |-> {}, removed |-> {}, removed_count |-> 0]

\* lines 569-581: the tags of the items of the page, the metadata record
\* apart.
get_used_tags(items) ==
    UNION {Range(item_tags(item)) : item \in {x \in Range(items) : x.id # METADATA_ID}}

\* lines 621-651
cleanup_response(unused_tags, used_tags, removed_count) ==
    create_response(200, [message |-> IF unused_tags = {} THEN <<"No unused tags found">>
                                      ELSE <<"Successfully removed", removed_count, "unused tags">>,
                          removed_tags |-> Sorted(unused_tags),
                          remaining_tags |-> Sorted(used_tags),
                          count_removed |-> removed_count,
                          count_remaining |-> Cardinality(used_tags)])

\* lines 587-593
CleanupUnusedTags(p, event) ==
    /\ Begin(p, event, "cleanup")
    /\ IF ~event.is_admin
       THEN Finish(p, Forbidden, Locals(<<>>))
       ELSE Enter(p, "cleanup_tags_scan", CleanupLocals)
    /\ UNCHANGED <<table, tags_table, call>>

\* lines 596-610: one page request to the tags table.
CleanupTagsScan(p) ==
    /\ pc[p] = "cleanup_tags_scan"
    /\ Enter(p, IF TagsScanPage(tags_table, scan[p].LastEvaluatedKey).more THEN "cleanup_tags_scan"
                ELSE "cleanup_quotes_scan",
             [Issue(scan[p], "tags_table.scan") EXCEPT
                 !.LastEvaluatedKey = TagsScanPage(tags_table, scan[p].LastEvaluatedKey).LastEvaluatedKey,
                 !.all_tags = @ \cup tag_names(TagsScanPage(tags_table, scan[p].LastEvaluatedKey).Items)])
    /\ UNCHANGED <<table, tags_table, req, start, call>>

\* lines 653-657: a page request to the tags table raises.
CleanupTagsScanFails(p) ==
    /\ pc[p] = "cleanup_tags_scan"
    /\ Finish(p, ServerError, Raise(scan[p], "tags_table.scan"))
    /\ UNCHANGED <<table, tags_table, req, start, call>>

\* lines 615-630: the unused tags; with none the handler answers.
CleanupAfterUsedTags(p, used_tags, s) ==
    IF s.all_tags \ used_tags = {}
    THEN Finish(p, cleanup_response({}, used_tags, 0), [s EXCEPT !.used_tags = used_tags])
    ELSE Enter(p, "cleanup_delete", [s EXCEPT !.used_tags = used_tags,
                                              !.unused_tags = s.all_tags \ used_tags,
                                              !.to_remove = s.all_tags \ used_tags])

\* line 568: the one page request of get_used_tags.
CleanupGetUsedTags(p) ==
    /\ pc[p] = "cleanup_quotes_scan"
    /\ CleanupAfterUsedTags(p, get_used_tags(ScanPage(table, NoKey).Items), Issue(scan[p], "table.scan"))
    /\ UNCHANGED <<table, tags_table, req, start, call>>

\* lines 583-585: the request raises and get_used_tags returns no tag.
CleanupGetUsedTagsFails(p) ==
    /\ pc[p] = "cleanup_quotes_scan"
    /\ CleanupAfterUsedTags(p, {}, Raise(scan[p], "table.scan"))
    /\ UNCHANGED <<table, tags_table, req, start, call>>

\* lines 642-651: after the last tag the handler answers.
CleanupAfterDelete(p, s) ==
    IF s.to_remove = {}
    THEN Finish(p, cleanup_response(s.unused_tags, s.used_tags, s.removed_count), s)
    ELSE Enter(p, "cleanup_delete", s)

\* lines 634-640: one delete_item, for a tag the loop has not reached yet.
\* When it raises the tag stays, removed_count is not incremented, and the
\* loop goes on with the next tag.
CleanupDeleteItem(p, tag, raises) ==
    /\ pc[p] = "cleanup_delete"
    /\ tag \in scan[p].to_remove
    /\ tags_table' = IF raises THEN tags_table ELSE tags_table \ {tag}
    /\ CleanupAfterDelete(p, [Request(scan[p], "tags_table.delete_item", raises) EXCEPT
                                 !.to_remove = @ \ {tag},
                                 !.removed = IF raises THEN @ ELSE @ \cup {tag},
                                 !.removed_count = IF raises THEN @ ELSE @ + 1])
    /\ UNCHANGED <<table, req, start, call>>

(***************************************************************************)
(* handle_delete_tag: the tag is looked up, every page of the quotes table *)
(* is read and each quote of it that carries the tag written back without  *)
(* it, then the tag is deleted from the tags table.                        *)
(***************************************************************************)
DeleteTagLocals ==
    [ops |-> <<>>, raised |-> FALSE, ExclusiveStartKey |-> NoKey, more |-> FALSE, items |-> <<>>,
     quotes_updated |-> 0, timestamp |-> ""]

\* lines 824-827: a quote that carries the tag.
carries_tag(item, tag) ==
    /\ Has(item, "quote") /\ Has(item, "author") /\ Has(item, "tags")
    /\ tag \in Range(item.tags)

\* lines 829-830: the tag is taken out of the item that the scan returned.
without_tag(item, tag, timestamp) ==
    [tags |-> SelectSeq(item.tags, LAMBDA x : x # tag), updated_at |-> timestamp] @@ item

\* DeleteTag looking the tag up ahead of the gate.
DeleteTag_lookup_first(p, event) ==
    /\ Begin(p, event, "delete_tag")
    /\ IF Get(event.pathParameters, "tag", <<>>) \notin tags_table
       THEN Finish(p, create_response(404, [error |-> <<"Tag not found", Get(event.pathParameters, "tag", <<>>)>>]),
                   Locals(<<"tags_table.get_item">>))
       ELSE IF ~event.is_admin
       THEN Finish(p, Forbidden, Locals(<<"tags_table.get_item">>))
       ELSE Enter(p, "delete_tag_scan", Issue(DeleteTagLocals, "tags_table.get_item"))
    /\ UNCHANGED <<table, tags_table, call>>

\* lines 780-802; the tag of the path holds no percent escape, so that
\* urllib.parse.unquote returns it as it is.
DeleteTag(p, event) ==
    /\ Begin(p, event, "delete_tag")
    /\ IF ~event.is_admin
       THEN Finish(p, Forbidden, Locals(<<>>))
       ELSE IF Get(event.pathParameters, "tag", <<>>) = <<>>
       THEN Finish(p, create_response(400, [error |-> "Tag name is required in path"]), Locals(<<>>))
       ELSE Enter(p, "delete_tag_get", DeleteTagLocals)
    /\ UNCHANGED <<table, tags_table, call>>

\* lines 805-813: tags_table.get_item; when it raises the handler answers
\* 500 with the text of the exception, which the model leaves out.
DeleteTagGetItem(p, raises) ==
    /\ pc[p] = "delete_tag_get"
    /\ IF raises
       THEN Finish(p, create_response(500, [error |-> "Error checking tag existence"]),
                   Raise(scan[p], "tags_table.get_item"))
       ELSE IF req[p].pathParameters.tag \notin tags_table
       THEN Finish(p, create_response(404, [error |-> <<"Tag not found", req[p].pathParameters.tag>>]),
                   Issue(scan[p], "tags_table.get_item"))
       ELSE Enter(p, "delete_tag_scan", Issue(scan[p], "tags_table.get_item"))
    /\ UNCHANGED <<table, tags_table, req, start, call>>

\* lines 821-838: the next request of the loop: a put_item while a quote of
\* the page is left to write, else the next page, else the deletion.
DeleteTagGoOn(p, s) ==
    Enter(p, IF s.items # <<>> THEN "delete_tag_put"
             ELSE IF s.more THEN "delete_tag_scan" ELSE "delete_tag_delete", s)

\* lines 817-819, 838 and 856-860: one page request to the quotes table;
\* the timestamp is taken after the first.  When the request raises the
\* handler answers 500.
DeleteTagScan(p, timestamp, raises) ==
    /\ pc[p] = "delete_tag_scan"
    /\ IF raises
       THEN Finish(p, ServerError, Raise(scan[p], "table.scan"))
       ELSE DeleteTagGoOn(p, [Issue(scan[p], "table.scan") EXCEPT
                                 !.more = ScanPage(table, scan[p].ExclusiveStartKey).more,
                                 !.ExclusiveStartKey = ScanPage(table, scan[p].ExclusiveStartKey).LastEvaluatedKey,
                                 !.items = SelectSeq(ScanPage(table, scan[p].ExclusiveStartKey).Items,
                                                     LAMBDA x : carries_tag(x, req[p].pathParameters.tag)),
                                 !.timestamp = IF @ = "" THEN timestamp ELSE @])
    /\ UNCHANGED <<table, tags_table, req, start, call>>

\* lines 829-832 and 856-860: put_item writes the item as the scan returned
\* it, the tag taken out.  When it raises the handler answers 500; the
\* quotes written before it keep their new tags.
DeleteTagPutItem(p, raises) ==
    /\ pc[p] = "delete_tag_put"
    /\ IF raises
       THEN Finish(p, ServerError, Raise(scan[p], "table.put_item")) /\ UNCHANGED table
       ELSE /\ table' = PutItem(table, without_tag(Head(scan[p].items), req[p].pathParameters.tag,
                                                   scan[p].timestamp))
            /\ DeleteTagGoOn(p, [Issue(scan[p], "table.put_item") EXCEPT
                                    !.items = Tail(@), !.quotes_updated = @ + 1])
    /\ UNCHANGED <<tags_table, req, start, call>>

\* lines 841-854: tags_table.delete_item and the response.  When it raises
\* the tag stays in the tags table, the quotes stay as they were rewritten,
\* and the handler answers 500 with the text of the exception, which the
\* model leaves out.
DeleteTagDeleteItem(p, raises) ==
    /\ pc[p] = "delete_tag_delete"
    /\ IF raises
       THEN /\ Finish(p, create_response(500, [error |-> "Failed to delete tag from tags table"]),
                      Raise(scan[p], "tags_table.delete_item"))
            /\ UNCHANGED tags_table
       ELSE /\ tags_table' = tags_table \ {req[p].pathParameters.tag}
            /\ Finish(p, create_response(200, [message |-> <<"Successfully deleted tag", req[p].pathParameters.tag>>,
                                               deleted_tag |-> req[p].pathParameters.tag,
                                               quotes_updated |-> scan[p].quotes_updated]),
                      Issue(scan[p], "tags_table.delete_item"))
    /\ UNCHANGED <<table, req, start, call>>

(***************************************************************************)
(* The tag routes (SpecTags): two invocations, one request each, whose     *)
(* table requests interleave, over quotes tagged t or u.  The first takes  *)
(* a request of the list, add or cleanup route; the other lists, cleans    *)
(* up, or deletes t, ahead of the first, between its requests or after it. *)
(* Every table request returns or raises.                                  *)
(***************************************************************************)
TagV == <<118>>

TagNames == {TagT, TagU, TagV}

\* The initial quotes table holds at most MaxTagQuotes quotes.
MaxTagQuotes == 3

TaggedQuote(tags) == [StoredQuote(QuoteA, AuthorX) EXCEPT !.tags = tags]

\* Quotes tagged t, then quotes tagged u.
TagCorpora ==
    {[i \in 1..(n + m) |-> IF i <= n THEN TaggedQuote(<<TagT>>) ELSE TaggedQuote(<<TagU>>)] :
        n \in 0..MaxTagQuotes, m \in 0..1}

TagTables ==
    {WithIds(c) : c \in {x \in TagCorpora : Len(x) <= MaxTagQuotes}}
    \cup {<<MetadataRecord>> \o WithIds(c) : c \in {x \in TagCorpora : Len(x) < MaxTagQuotes}}

InitTagSets == {{}, {TagT}, {TagT, TagU}, {TagT, TagU, TagV}}

\* An event with path parameters.
PathEvent(route, is_admin, json_ok, data, path) ==
    Event(route, is_admin, json_ok, data) @@ [pathParameters |-> path]

TagEvents ==
    {Event(r, a, TRUE, <<>>) : r \in {"get_tags", "cleanup"}, a \in BOOLEAN}
    \cup {Event("add_tag", TRUE, TRUE, Field("tag", tag)) :
             tag \in {Absent, Given(<<SPACE>>), Given(TagT), Given(<<SPACE>> \o TagV)}}
    \cup {Event("add_tag", FALSE, TRUE, Field("tag", Given(TagT))),
          Event("add_tag", TRUE, FALSE, <<>>)}

OtherTagEvents ==
    {Event(r, TRUE, TRUE, <<>>) : r \in {"get_tags", "cleanup"}}
    \cup {PathEvent("delete_tag", TRUE, TRUE, <<>>, [tag |-> TagT])}

Other == "p2"

TagEventsOf(p) == IF p = Other THEN OtherTagEvents ELSE TagEvents

InitTags ==
    /\ table \in TagTables
    /\ tags_table \in InitTagSets
    /\ InitProcs
    /\ call = NoCall

NextTags ==
    \/ \E p \in Procs : \E event \in TagEventsOf(p) : GetTags(p, event)
    \/ \E p \in Procs : TagsTableScan(p)
    \/ \E p \in Procs : QuotesScan(p)
    \/ \E p \in Procs : GetTagsMetadataFails(p)
    \/ \E p \in Procs : \E event \in TagEventsOf(p) : AddTag(p, event)
    \/ \E p \in Procs, ts \in Timestamps, raises \in BOOLEAN : AddTagPutItem(p, ts, raises)
    \/ \E p \in Procs : \E event \in TagEventsOf(p) : CleanupUnusedTags(p, event)
    \/ \E p \in Procs : CleanupTagsScan(p)
    \/ \E p \in Procs : CleanupTagsScanFails(p)
    \/ \E p \in Procs : CleanupGetUsedTags(p)
    \/ \E p \in Procs : CleanupGetUsedTagsFails(p)
    \/ \E p \in Procs, tag \in TagNames, raises \in BOOLEAN : CleanupDeleteItem(p, tag, raises)
    \/ \E p \in Procs : \E event \in TagEventsOf(p) : DeleteTag(p, event)
    \/ \E p \in Procs, raises \in BOOLEAN : DeleteTagGetItem(p, raises)
    \/ \E p \in Procs, ts \in Timestamps, raises \in BOOLEAN : DeleteTagScan(p, ts, raises)
    \/ \E p \in Procs, raises \in BOOLEAN : DeleteTagPutItem(p, raises)
    \/ \E p \in Procs, raises \in BOOLEAN : DeleteTagDeleteItem(p, raises)

SpecTags == InitTags /\ [][NextTags]_vars

(***************************************************************************)
(* Update, delete and save-custom-image (SpecUpdate).  The id of the path  *)
(* and of the body is a key of the quotes table or a key no item has;      *)
(* every table request returns or raises.                                  *)
(***************************************************************************)
\* delete_item
DeleteItem(t, id) == SelectSeq(t, LAMBDA x : x.id # id)

UpdateLocals ==
    [ops |-> <<>>, raised |-> FALSE, existing_quote |-> <<>>, quote_item |-> <<>>, current_tags |-> {},
     timestamp |-> ""]

\* lines 384-396: the item an update request writes.
updated_item(event, existing_quote, timestamp) ==
    [id |-> event.pathParameters.id,
     quote |-> Strip(event.data.quote),
     author |-> Strip(event.data.author),
     tags |-> IF Has(event.data, "tags") THEN event.data.tags.items ELSE <<>>,
     updated_at |-> timestamp,
     updated_by |-> event.username,
     created_at |-> Get(existing_quote, "created_at", timestamp),
     created_by |-> Get(existing_quote, "created_by", "unknown")]

\* lines 350-370
UpdateQuote(p, event) ==
    /\ Begin(p, event, "update")
    /\ IF ~event.is_admin
       THEN Finish(p, Forbidden, Locals(<<>>))
       ELSE IF ~Has(event.pathParameters, "id")
       THEN Finish(p, create_response(400, [error |-> "Quote ID is required"]), Locals(<<>>))
       ELSE IF ~event.json_ok
       THEN Finish(p, create_response(400, [error |-> "Invalid JSON in request body"]), Locals(<<>>))
       ELSE IF validate_quote_data(event.data) # <<>>
       THEN Finish(p, create_response(400, [error |-> "Validation failed",
                                            details |-> validate_quote_data(event.data)]),
                   Locals(<<>>))
       ELSE Enter(p, "update_get", UpdateLocals)
    /\ UNCHANGED <<table, tags_table, call>>

\* lines 373-394: get_item; when it raises the handler answers 500.
UpdateQuoteGetItem(p, raises) ==
    /\ pc[p] = "update_get"
    /\ IF raises
       THEN Finish(p, ServerError, Raise(scan[p], "table.get_item"))
       ELSE IF req[p].pathParameters.id \notin Ids(table)
       THEN Finish(p, create_response(404, [error |-> "Quote not found"]), Issue(scan[p], "table.get_item"))
       ELSE Enter(p, "update_put", [Issue(scan[p], "table.get_item") EXCEPT
                                       !.existing_quote = Lookup(table, req[p].pathParameters.id)])
    /\ UNCHANGED <<table, tags_table, req, start, call>>

\* lines 382-399 and 411-413: put_item replaces the stored item; when it
\* raises nothing is written and the handler answers 500.
UpdateQuotePutItem(p, timestamp, raises) ==
    /\ pc[p] = "update_put"
    /\ IF raises
       THEN Finish(p, ServerError, Raise(scan[p], "table.put_item")) /\ UNCHANGED table
       ELSE /\ table' = PutItem(table, updated_item(req[p], scan[p].existing_quote, timestamp))
            /\ Enter(p, "update_tags_get",
                     [Issue(scan[p], "table.put_item") EXCEPT
                         !.quote_item = updated_item(req[p], scan[p].existing_quote, timestamp)])
    /\ UNCHANGED <<tags_table, req, start, call>>

\* lines 143-155: update_tags_metadata called by handle_update_quote; when
\* get_item raises the merge starts from no tag.
UpdateQuoteTagsGet(p, timestamp, raises) ==
    /\ pc[p] = "update_tags_get"
    /\ Enter(p, "update_tags_put", [Request(scan[p], "table.get_item", raises) EXCEPT
                                       !.current_tags = merged_tags(table, scan[p].quote_item.tags, raises),
                                       !.timestamp = timestamp])
    /\ UNCHANGED <<table, tags_table, req, start, call>>

\* lines 157-168 and 404-407: the metadata record is written back, or
\* put_item raises and nothing is written; the request is answered 200.
UpdateQuoteTagsPut(p, raises) ==
    /\ pc[p] = "update_tags_put"
    /\ table' = metadata_written(table, scan[p].current_tags, scan[p].timestamp, raises)
    /\ Finish(p, create_response(200, [message |-> "Quote updated successfully",
                                       quote |-> scan[p].quote_item]),
              Request(scan[p], "table.put_item", raises))
    /\ UNCHANGED <<tags_table, req, start, call>>

\* lines 415-424
DeleteQuote(p, event) ==
    /\ Begin(p, event, "delete")
    /\ IF ~event.is_admin
       THEN Finish(p, Forbidden, Locals(<<>>))
       ELSE IF ~Has(event.pathParameters, "id")
       THEN Finish(p, create_response(400, [error |-> "Quote ID is required"]), Locals(<<>>))
       ELSE Enter(p, "delete_get", Locals(<<>>))
    /\ UNCHANGED <<table, tags_table, call>>

\* lines 427-433: get_item; when it raises the handler answers 500.
DeleteQuoteGetItem(p, raises) ==
    /\ pc[p] = "delete_get"
    /\ IF raises
       THEN Finish(p, ServerError, Raise(scan[p], "table.get_item"))
       ELSE IF req[p].pathParameters.id \notin Ids(table)
       THEN Finish(p, create_response(404, [error |-> "Quote not found"]), Issue(scan[p], "table.get_item"))
       ELSE Enter(p, "delete_item", Issue(scan[p], "table.get_item"))
    /\ UNCHANGED <<table, tags_table, req, start, call>>

\* lines 436-445: delete_item and the response; when it raises nothing is
\* deleted and the handler answers 500.
DeleteQuoteDeleteItem(p, raises) ==
    /\ pc[p] = "delete_item"
    /\ IF raises
       THEN Finish(p, ServerError, Raise(scan[p], "table.delete_item")) /\ UNCHANGED table
       ELSE /\ table' = DeleteItem(table, req[p].pathParameters.id)
            /\ Finish(p, create_response(200, [message |-> "Quote deleted successfully",
                                               deleted_quote_id |-> req[p].pathParameters.id]),
                      Issue(scan[p], "table.delete_item"))
    /\ UNCHANGED <<tags_table, req, start, call>>

\* lines 971-978: update_item sets the two attributes on the item with the
\* key, or on a new item that has the key alone.
set_image_url(t, quote_id, image_url, timestamp) ==
    PutItem(t, [image_url |-> image_url, updated_at |-> timestamp]
                   @@ (IF quote_id \in Ids(t) THEN Lookup(t, quote_id) ELSE [id |-> quote_id]))

\* lines 955-990: the handler issues one request.  The body that does not
\* parse and the update_item that raises are both answered 500 with the text
\* of the exception, which the model leaves out; neither writes.
SaveCustomImage(p, event, timestamp, raises) ==
    /\ Begin(p, event, "save_image")
    /\ IF ~event.is_admin
       THEN Finish(p, Forbidden, Locals(<<>>)) /\ UNCHANGED table
       ELSE IF ~event.json_ok
       THEN Finish(p, create_response(500, [error |-> "Failed to save custom image URL"]), Locals(<<>>))
            /\ UNCHANGED table
       ELSE IF ~Has(event.data, "quote_id") \/ Get(event.data, "image_url", <<>>) = <<>>
       THEN Finish(p, create_response(400, [error |-> "Missing quote_id or image_url"]), Locals(<<>>))
            /\ UNCHANGED table
       ELSE IF raises
       THEN Finish(p, create_response(500, [error |-> "Failed to save custom image URL"]),
                   Raise(Locals(<<>>), "table.update_item"))
            /\ UNCHANGED table
       ELSE /\ table' = set_image_url(table, event.data.quote_id, event.data.image_url, timestamp)
            /\ Finish(p, create_response(200, [message |-> "Custom image URL saved successfully",
                                               quote_id |-> event.data.quote_id,
                                               image_url |-> event.data.image_url]),
                      Locals(<<"table.update_item">>))
    /\ UNCHANGED <<tags_table, call>>

\* "u": an image url.
ImageUrl == <<117>>

\* The initial quotes table holds at most MaxUpdateStored quotes; requests
\* name the keys of MaxUpdateStored + 1 items.
MaxUpdateStored == 2

UpdateTables ==
    UNION {Stored(c) : c \in SeqsUpTo({StoredQuote(QuoteA, AuthorX)}, MaxUpdateStored)}

UpdatePaths == {<<>>} \cup {[id |-> i * IdGap] : i \in 1..(MaxUpdateStored + 1)}

UpdateBodies ==
    {Body(Given(QuoteB), Given(AuthorX), t) : t \in {Absent, Given(TagList(<<TagT>>))}}
    \cup {Body(Given(<<SPACE>>), Given(AuthorX), Absent)}

ImageBodies ==
    {<<>>, [quote_id |-> IdGap], [quote_id |-> IdGap, image_url |-> ImageUrl],
     [quote_id |-> (MaxUpdateStored + 1) * IdGap, image_url |-> ImageUrl]}

UpdateEvents ==
    {PathEvent("update", TRUE, TRUE, b, path) : b \in UpdateBodies, path \in UpdatePaths}
    \cup {PathEvent("delete", TRUE, TRUE, <<>>, path) : path \in UpdatePaths}
    \cup {PathEvent("save_image", TRUE, TRUE, b, <<>>) : b \in ImageBodies}
    \cup {PathEvent(r, FALSE, TRUE, [quote_id |-> IdGap, image_url |-> ImageUrl] @@ Body(Given(QuoteB), Given(AuthorX), Absent), [id |-> IdGap]) :
             r \in {"update", "delete", "save_image"}}
    \cup {PathEvent(r, TRUE, FALSE, <<>>, [id |-> IdGap]) : r \in {"update", "save_image"}}

InitUpdate ==
    /\ table \in UpdateTables
    /\ tags_table = {TagT}
    /\ InitProcs
    /\ call = NoCall

NextUpdate ==
    \/ \E event \in UpdateEvents : UpdateQuote(Main, event)
    \/ \E raises \in BOOLEAN : UpdateQuoteGetItem(Main, raises)
    \/ \E ts \in Timestamps, raises \in BOOLEAN : UpdateQuotePutItem(Main, ts, raises)
    \/ \E ts \in Timestamps, raises \in BOOLEAN : UpdateQuoteTagsGet(Main, ts, raises)
    \/ \E raises \in BOOLEAN : UpdateQuoteTagsPut(Main, raises)
    \/ \E event \in UpdateEvents : DeleteQuote(Main, event)
    \/ \E raises \in BOOLEAN : DeleteQuoteGetItem(Main, raises)
    \/ \E raises \in BOOLEAN : DeleteQuoteDeleteItem(Main, raises)
    \/ \E event \in UpdateEvents, ts \in Timestamps, raises \in BOOLEAN : SaveCustomImage(Main, event, ts, raises)
    \/ Return(Main)

SpecUpdate == InitUpdate /\ [][NextUpdate]_vars

(***************************************************************************)
(* List and search: one page request a step.                               *)
(***************************************************************************)
\* An event with query string parameters.
QueryEvent(route, is_admin, params) ==
    Event(route, is_admin, TRUE, <<>>) @@ [queryStringParameters |-> params]

\* lines 492 and 892: the metadata record and image generation jobs are
\* left out.
listed(item) == item.id # METADATA_ID /\ Get(item, "type", "") # "image_generation_job"

\* min(int(query_params.get('limit', 50)), 1000)
DefaultLimit == 50

LimitCap == 1000

limit_of(params) ==
    IF Get(params, "limit", DefaultLimit) < LimitCap THEN Get(params, "limit", DefaultLimit)
    ELSE LimitCap

\* The timestamps of the model in the order of their texts: an absent
\* timestamp reads '', the initial items carry "T0", a request writes "T1".
Times == <<"", "T0", "T1">>

TimeRank(timestamp) == CHOOSE i \in 1..Len(Times) : Times[i] = timestamp

ValidSortFields == {"quote", "author", "created_at", "updated_at"}

\* lines 506-512 and 917-923: the key an item is sorted by, the lower-cased
\* text or the timestamp, '' when the item has none.
sort_key(item, sort_by) ==
    IF sort_by \in {"quote", "author"} THEN Lower(Get(item, sort_by, <<>>))
    ELSE Get(item, sort_by, "")

\* The order of two keys: texts by their characters, timestamps by their
\* texts.
key_less(a, b, sort_by) ==
    IF sort_by \in {"quote", "author"} THEN LexLess(a, b) ELSE TimeRank(a) < TimeRank(b)

\* x comes before y in the sorted list whatever their places in the input.
sort_before(x, y, sort_by, reverse_sort) ==
    IF reverse_sort THEN key_less(sort_key(y, sort_by), sort_key(x, sort_by), sort_by)
    ELSE key_less(sort_key(x, sort_by), sort_key(y, sort_by), sort_by)

\* list.sort is stable, also with reverse=True: x goes behind the items it
\* does not come before.
sort_place(done, x, sort_by, reverse_sort) ==
    Cardinality({i \in 1..Len(done) : ~sort_before(x, done[i], sort_by, reverse_sort)})

sort_insert(done, x, sort_by, reverse_sort) ==
    SubSeq(done, 1, sort_place(done, x, sort_by, reverse_sort)) \o <<x>>
        \o SubSeq(done, sort_place(done, x, sort_by, reverse_sort) + 1, Len(done))

RECURSIVE sort(_, _, _)
sort(quotes, sort_by, reverse_sort) ==
    IF quotes = <<>> THEN <<>>
    ELSE sort_insert(sort(SubSeq(quotes, 1, Len(quotes) - 1), sort_by, reverse_sort),
                     quotes[Len(quotes)], sort_by, reverse_sort)

sort_by_of(params) == Get(params, "sort_by", "created_at")

sort_order_of(params) == Get(params, "sort_order", "desc")

\* lines 502-512 and 913-923: the list is sorted by one of the four fields
\* and left as it is for any other sort_by.
sorted_quotes(quotes, params) ==
    IF sort_by_of(params) \in ValidSortFields
    THEN sort(quotes, sort_by_of(params), sort_order_of(params) = "desc")
    ELSE quotes

\* None
NoLastKey == "None"

\* last_item.get(sort_by, '')
sort_field(item, sort_by) == Get(item, sort_by, IF sort_by \in {"quote", "author"} THEN <<>> ELSE "")

\* lines 522-531: the key of the next page, of the last quote returned.
next_last_key(quotes, params) ==
    IF Len(quotes) > limit_of(params) /\ FirstN(quotes, limit_of(params)) # <<>>
    THEN [id |-> FirstN(quotes, limit_of(params))[Len(FirstN(quotes, limit_of(params)))].id,
          sort_field |-> sort_field(FirstN(quotes, limit_of(params))[Len(FirstN(quotes, limit_of(params)))],
                                    sort_by_of(params)),
          sort_by |-> sort_by_of(params),
          sort_order |-> sort_order_of(params)]
    ELSE NoLastKey

\* lines 515-540: the response carries the first limit quotes of the sorted
\* list.
list_response(quotes, params) ==
    create_response(200, [quotes |-> FirstN(quotes, limit_of(params)),
                          total_count |-> Len(quotes),
                          count |-> Len(FirstN(quotes, limit_of(params))),
                          has_more |-> Len(quotes) > limit_of(params),
                          last_key |-> next_last_key(quotes, params)])

\* The last_key parameter is a text: LastKey(id) stands for the JSON text of
\* the key {"id": id}, NotJson for a text json.loads rejects.
LastKey(id) == [json_ok |-> TRUE, id |-> id]

NotJson == [json_ok |-> FALSE, id |-> NoKey]

\* lines 458 and 484: the key of a last_key that parses.
last_key_of(params) ==
    IF Has(params, "last_key") /\ params.last_key.json_ok THEN params.last_key.id ELSE NoKey

\* A handler issues at most MaxListScans page requests of the list loop.
MaxListScans == 4

ListLocals == [ops |-> <<>>, raised |-> FALSE, ExclusiveStartKey |-> NoKey, all_quotes |-> <<>>]

\* lines 482-486: while all_quotes is empty a last_key that parses replaces
\* the ExclusiveStartKey of scan_params.
list_start_key(params, s) ==
    IF last_key_of(params) # NoKey /\ s.all_quotes = <<>> THEN last_key_of(params)
    ELSE s.ExclusiveStartKey

\* lines 447-479
ListQuotes(p, event) ==
    /\ Begin(p, event, "list")
    /\ IF ~event.is_admin
       THEN Finish(p, Forbidden, Locals(<<>>))
       ELSE IF Get(event.queryStringParameters, "sort_by", "created_at")
                   \notin {"quote", "author", "created_at", "updated_at"}
       THEN Finish(p, create_response(400, [error |-> "Invalid sort field"]), Locals(<<>>))
       ELSE IF Get(event.queryStringParameters, "sort_order", "desc") \notin {"asc", "desc"}
       THEN Finish(p, create_response(400, [error |-> "Invalid sort order"]), Locals(<<>>))
       ELSE Enter(p, "list_scan", ListLocals)
    /\ UNCHANGED <<table, tags_table, call>>

\* lines 489-540: the quotes of the page join all_quotes; with the last
\* page the loop ends, all_quotes is sorted and its first page answered.
ListAfterPage(p, page, s) ==
    IF page.more
    THEN Enter(p, "list_scan", [s EXCEPT !.ExclusiveStartKey = page.LastEvaluatedKey,
                                         !.all_quotes = @ \o SelectSeq(page.Items, listed)])
    ELSE Finish(p, list_response(sorted_quotes(s.all_quotes \o SelectSeq(page.Items, listed),
                                               req[p].queryStringParameters),
                                 req[p].queryStringParameters),
                [s EXCEPT !.all_quotes = sorted_quotes(@ \o SelectSeq(page.Items, listed),
                                                       req[p].queryStringParameters)])

\* lines 481-498 and 542-546: one turn of the loop, with its page request.
\* With a last_key, while no quote was read, every turn asks for the page
\* after last_key.  When the request raises the handler answers 500.
ListScanPage(p, raises) ==
    /\ pc[p] = "list_scan"
    /\ Len(scan[p].ops) < MaxListScans
    /\ IF raises
       THEN Finish(p, ServerError, Raise(scan[p], "table.scan"))
       ELSE ListAfterPage(p, ScanPage(table, list_start_key(req[p].queryStringParameters, scan[p])),
                          Issue(scan[p], "table.scan"))
    /\ UNCHANGED <<table, tags_table, req, start, call>>

\* search_query in text
Contains(text, q) ==
    \E i \in 1..(Len(text) - Len(q) + 1) : SubSeq(text, i, i + Len(q) - 1) = q

\* lines 896-904
search_matches(item, q) ==
    \/ Contains(Lower(Get(item, "quote", <<>>)), q)
    \/ Contains(Lower(Get(item, "author", <<>>)), q)
    \/ \E k \in 1..Len(item_tags(item)) : Contains(Lower(item_tags(item)[k]), q)

\* lines 933-937: the key of the next page, of the last quote returned.
search_last_key(quotes, params) ==
    IF Len(quotes) > limit_of(params) /\ FirstN(quotes, limit_of(params)) # <<>>
    THEN [id |-> FirstN(quotes, limit_of(params))[Len(FirstN(quotes, limit_of(params)))].id,
          sort_value |-> sort_field(FirstN(quotes, limit_of(params))[Len(FirstN(quotes, limit_of(params)))],
                                    sort_by_of(params))]
    ELSE NoLastKey

\* lines 926-947
search_response(quotes, params) ==
    create_response(200, [quotes |-> FirstN(quotes, limit_of(params)),
                          total |-> Len(quotes),
                          has_more |-> Len(quotes) > limit_of(params),
                          last_key |-> search_last_key(quotes, params)])

SearchLocals == [ops |-> <<>>, raised |-> FALSE, ExclusiveStartKey |-> NoKey, matching_quotes |-> <<>>]

\* lines 862-883
SearchQuotes(p, event) ==
    /\ Begin(p, event, "search")
    /\ IF ~event.is_admin
       THEN Finish(p, Forbidden, Locals(<<>>))
       ELSE IF Get(event.queryStringParameters, "q", <<>>) = <<>>
       THEN Finish(p, create_response(400, [error |-> "Search query is required"]), Locals(<<>>))
       ELSE Enter(p, "search_scan", SearchLocals)
    /\ UNCHANGED <<table, tags_table, call>>

\* lines 887-947: the matches of the page join matching_quotes; with the
\* last page the loop ends, matching_quotes is sorted and its first page
\* answered.
SearchAfterPage(p, page, s, matches) ==
    IF page.more
    THEN Enter(p, "search_scan", [s EXCEPT !.ExclusiveStartKey = page.LastEvaluatedKey,
                                           !.matching_quotes = @ \o matches])
    ELSE Finish(p, search_response(sorted_quotes(s.matching_quotes \o matches, req[p].queryStringParameters),
                                   req[p].queryStringParameters),
                [s EXCEPT !.matching_quotes = sorted_quotes(@ \o matches, req[p].queryStringParameters)])

\* lines 886 and 949-953: one page request; when it raises the handler
\* answers 500.
SearchScanPage(p, raises) ==
    /\ pc[p] = "search_scan"
    /\ IF raises
       THEN Finish(p, ServerError, Raise(scan[p], "table.scan"))
       ELSE SearchAfterPage(p, ScanPage(table, scan[p].ExclusiveStartKey), Issue(scan[p], "table.scan"),
                            SelectSeq(ScanPage(table, scan[p].ExclusiveStartKey).Items,
                                      LAMBDA item : listed(item)
                                          /\ search_matches(item, Lower(req[p].queryStringParameters.q))))
    /\ UNCHANGED <<table, tags_table, req, start, call>>

(***************************************************************************)
(* Every route of lambda_handler (SpecGate), each called by an admin and   *)
(* by a caller who is none.  Every table request returns: a request that   *)
(* raises comes after the gate, and is a step of Spec, SpecTags and        *)
(* SpecUpdate.                                                             *)
(***************************************************************************)
Routes ==
    {"create", "update", "delete", "list", "search", "get_tags", "add_tag", "update_tag",
     "cleanup", "delete_tag", "check", "save_image"}

\* Create requests are taken while fewer than MaxGateCreates were written; the
\* initial table holds at most MaxGateStored quotes.
MaxGateCreates == 1

MaxGateStored == 1

\* line 492: a record of an image generation job.
JobRecord == [type |-> "image_generation_job", quote |-> QuoteA, author |-> AuthorX]

\* The tables of quotes, with and without the metadata record, and a table
\* that holds job records ahead of its quotes.
GateTables ==
    LET corpora == SeqsUpTo({TaggedQuote(<<TagT>>)}, MaxGateStored)
    IN  {WithIds(c) : c \in corpora} \cup {<<MetadataRecord>> \o WithIds(c) : c \in corpora}
            \cup {WithIds(<<JobRecord, JobRecord>> \o c) : c \in corpora}

\* One request per route, with every parameter a route reads.
GateRequest(route, is_admin) ==
    [route |-> route, is_admin |-> is_admin, username |-> "admin", json_ok |-> TRUE,
     data |-> Body(Given(QuoteB), Given(AuthorX), Absent)
                  @@ [tag |-> TagU, quote_id |-> IdGap, image_url |-> ImageUrl],
     pathParameters |-> [id |-> IdGap, tag |-> TagT],
     queryStringParameters |-> [q |-> QuoteA]]

GateEvents ==
    {GateRequest(route, is_admin) : route \in Routes, is_admin \in BOOLEAN}
    \cup {[GateRequest("list", TRUE) EXCEPT !.queryStringParameters = [sort_by |-> "id"]],
          [GateRequest("list", TRUE) EXCEPT !.queryStringParameters = [sort_order |-> "up"]],
          [GateRequest("list", TRUE) EXCEPT !.queryStringParameters = [limit |-> -1]],
          [GateRequest("list", TRUE) EXCEPT !.queryStringParameters = [limit |-> 1]],
          [GateRequest("list", TRUE) EXCEPT !.queryStringParameters = [sort_by |-> "quote", sort_order |-> "asc"]],
          [GateRequest("list", TRUE) EXCEPT !.queryStringParameters = [sort_by |-> "author"]],
          [GateRequest("list", TRUE) EXCEPT !.queryStringParameters = [sort_by |-> "updated_at", sort_order |-> "asc", limit |-> 1]],
          [GateRequest("search", TRUE) EXCEPT !.queryStringParameters = [q |-> QuoteA, sort_by |-> "id"]],
          [GateRequest("search", TRUE) EXCEPT !.queryStringParameters = [q |-> QuoteA, sort_by |-> "quote", sort_order |-> "up", limit |-> 1]],
          [GateRequest("list", TRUE) EXCEPT !.queryStringParameters = [last_key |-> NotJson]],
          [GateRequest("list", TRUE) EXCEPT !.queryStringParameters = [last_key |-> LastKey(METADATA_ID)]],
          [GateRequest("list", TRUE) EXCEPT !.queryStringParameters = [last_key |-> LastKey(IdGap)]],
          [GateRequest("search", TRUE) EXCEPT !.queryStringParameters = <<>>],
          [GateRequest("delete_tag", TRUE) EXCEPT !.pathParameters = <<>>]}

InitGate ==
    /\ table \in GateTables
    /\ tags_table \in SUBSET {TagT}
    /\ InitProcs
    /\ call = NoCall

GateCreateBegin(p, event) ==
    /\ Len(Created(table)) < MaxGateCreates
    /\ CreateRequest(p, event)

NextGate ==
    \/ \E event \in GateEvents : GateCreateBegin(Main, event)
    \/ CreateScanPage(Main)
    \/ \E id \in NewIds(table), ts \in Timestamps : CreatePutItem(Main, id, ts)
    \/ \E ts \in Timestamps : UpdateTagsMetadataGet(Main, ts, FALSE)
    \/ UpdateTagsMetadataPut(Main, FALSE)
    \/ \E event \in GateEvents : CheckBegin(Main, event)
    \/ CheckScanPage(Main)
    \/ \E event \in GateEvents : UpdateQuote(Main, event)
    \/ UpdateQuoteGetItem(Main, FALSE)
    \/ \E ts \in Timestamps : UpdateQuotePutItem(Main, ts, FALSE)
    \/ \E ts \in Timestamps : UpdateQuoteTagsGet(Main, ts, FALSE)
    \/ UpdateQuoteTagsPut(Main, FALSE)
    \/ \E event \in GateEvents : DeleteQuote(Main, event)
    \/ DeleteQuoteGetItem(Main, FALSE)
    \/ DeleteQuoteDeleteItem(Main, FALSE)
    \/ \E event \in GateEvents : ListQuotes(Main, event)
    \/ ListScanPage(Main, FALSE)
    \/ \E event \in GateEvents : SearchQuotes(Main, event)
    \/ SearchScanPage(Main, FALSE)
    \/ \E event \in GateEvents : GetTags(Main, event)
    \/ \E event \in GateEvents : AddTag(Main, event)
    \/ \E event \in GateEvents : UpdateTag(Main, event)
    \/ TagsTableScan(Main)
    \/ QuotesScan(Main)
    \/ \E ts \in Timestamps : AddTagPutItem(Main, ts, FALSE)
    \/ \E event \in GateEvents : CleanupUnusedTags(Main, event)
    \/ CleanupTagsScan(Main)
    \/ CleanupGetUsedTags(Main)
    \/ \E tag \in TagNames : CleanupDeleteItem(Main, tag, FALSE)
    \/ \E event \in GateEvents : DeleteTag(Main, event)
    \/ DeleteTagGetItem(Main, FALSE)
    \/ \E ts \in Timestamps : DeleteTagScan(Main, ts, FALSE)
    \/ DeleteTagPutItem(Main, FALSE)
    \/ DeleteTagDeleteItem(Main, FALSE)
    \/ \E event \in GateEvents, ts \in Timestamps : SaveCustomImage(Main, event, ts, FALSE)
    \/ Return(Main)

SpecGate == InitGate /\ [][NextGate]_vars

(***************************************************************************)
(* The OAuth success flag (SpecOAuth, oauth_callback_handler.py).  The     *)
(* callback stores a flag in the quotes table under a key made of the      *)
(* time and the end of the user's sub; check_oauth_success reads the flag  *)
(* and deletes it, in two requests.  Invocations of both processes         *)
(* interleave between the requests.  In this specification the keys of     *)
(* the table are texts.                                                    *)
(***************************************************************************)
\* The flag lives for 300 seconds.
FlagTTL == 300

\* The text 'oauth_success_'.
KeyPrefix == <<111, 97, 117, 116, 104, 95, 115, 117, 99, 99, 101, 115, 115, 95>>

\* str(n) for n >= 0
RECURSIVE Decimal(_)
Decimal(n) == IF n < 10 THEN <<48 + n>> ELSE Decimal(n \div 10) \o <<48 + (n % 10)>>

\* s[-n:]
LastN(s, n) == SubSeq(s, Max(1, Len(s) - n + 1), Len(s))

\* user_sub[-8:]
SuffixLen == 8

\* line 103: f"oauth_success_{timestamp}_{user_sub[-8:]}"
success_key_of(timestamp, user_sub) ==
    KeyPrefix \o Decimal(timestamp) \o <<95>> \o LastN(user_sub, SuffixLen)

\* lines 106-117: the flag that store_oauth_success_flag puts.
oauth_success_flag(timestamp, user_email, user_sub) ==
    [id |-> success_key_of(timestamp, user_sub), token_type |-> "oauth_success",
     user_email |-> user_email, user_sub |-> user_sub, created_at |-> timestamp,
     ttl |-> timestamp + FlagTTL]

\* put_item on a table whose keys are texts: the item replaces the one with
\* its key, or takes its place in the order of the keys.
PutItemText(t, item) ==
    SelectSeq(t, LAMBDA x : LexLess(x.id, item.id)) \o <<item>>
        \o SelectSeq(t, LAMBDA x : LexLess(item.id, x.id))

\* lines 99-119, when put_item returns.
store_oauth_success_flag(t, timestamp, user_email, user_sub) ==
    PutItemText(t, oauth_success_flag(timestamp, user_email, user_sub))

\* The callback's event and what the token endpoint answers to its code:
\* "tokens", "error", or a response with no id_token; payload_ok tells
\* whether the payload of the id_token decodes.
CallbackEvent(error, code, token_response, payload_ok, user) ==
    [route |-> "oauth_callback", error |-> error, code |-> code,
     token_response |-> token_response, payload_ok |-> payload_ok,
     user_email |-> user.user_email, user_sub |-> user.user_sub]

\* lines 33-62: the callback answers 400 before it reads the id_token.
callback_error(event) ==
    IF event.error THEN "Authentication failed"
    ELSE IF ~event.code THEN "No authorization code received"
    ELSE IF event.token_response = "error" THEN "Token exchange failed"
    ELSE IF event.token_response # "tokens" THEN "Invalid token response"
    ELSE ""

\* lines 84-91: the success page carries the key, '' when none was stored.
success_page(success_key) == [statusCode |-> 200, success_key |-> success_key]

flags_of(t) == SelectSeq(t, LAMBDA item : Get(item, "token_type", "") = "oauth_success")

\* The callback stores flags while the table holds fewer than MaxFlags.
MaxFlags == 2

\* lines 24-96 with store_oauth_success_flag (lines 99-119): the callback
\* up to its response, put_item returning.
OAuthCallback(p, event, timestamp) ==
    /\ pc[p] = "idle"
    /\ event.route = "oauth_callback"
    /\ Len(flags_of(table)) < MaxFlags
    /\ req' = [req EXCEPT ![p] = event]
    /\ start' = [start EXCEPT ![p] = Snapshot]
    /\ IF callback_error(event) # ""
       THEN /\ Finish(p, [statusCode |-> 400, error |-> callback_error(event)], Locals(<<>>))
            /\ UNCHANGED table
       ELSE IF ~event.payload_ok
       THEN /\ Finish(p, success_page(<<>>), Locals(<<>>))
            /\ UNCHANGED table
       ELSE /\ table' = store_oauth_success_flag(table, timestamp, event.user_email, event.user_sub)
            /\ Finish(p, success_page(success_key_of(timestamp, event.user_sub)),
                      Locals(<<"table.put_item">>))
    /\ UNCHANGED <<tags_table, call>>

\* lines 121-123 and 81-82: put_item raises; store_oauth_success_flag
\* returns '' and the callback answers its success page without a key.
OAuthCallbackStoreFails(p, event) ==
    /\ pc[p] = "idle"
    /\ event.route = "oauth_callback"
    /\ callback_error(event) = ""
    /\ event.payload_ok
    /\ req' = [req EXCEPT ![p] = event]
    /\ start' = [start EXCEPT ![p] = Snapshot]
    /\ Finish(p, success_page(<<>>), Locals(<<"table.put_item">>))
    /\ UNCHANGED <<table, tags_table, call>>

CheckRequest(success_key) == [route |-> "check_oauth_success", success_key |-> success_key]

\* The empty key.
NoSuccessKey == <<>>

\* lines 127-146: the key is tested and the flag read.
OAuthGet(p, success_key) ==
    /\ pc[p] = "idle"
    /\ req' = [req EXCEPT ![p] = CheckRequest(success_key)]
    /\ start' = [start EXCEPT ![p] = Snapshot]
    /\ IF success_key = NoSuccessKey
       THEN Finish(p, [success |-> FALSE, error |-> "Missing success key"], Locals(<<>>))
       ELSE IF success_key \notin Ids(table)
       THEN Finish(p, [success |-> FALSE, error |-> "Success flag not found or expired"],
                   Locals(<<"table.get_item">>))
       ELSE IF Get(Lookup(table, success_key), "token_type", "") # "oauth_success"
       THEN Finish(p, [success |-> FALSE, error |-> "Invalid flag type"],
                   Locals(<<"table.get_item">>))
       ELSE /\ pc' = [pc EXCEPT ![p] = "delete"]
            /\ scan' = [scan EXCEPT ![p] = [ops |-> <<"table.get_item">>,
                                            item |-> Lookup(table, success_key)]]
            /\ UNCHANGED resp
    /\ UNCHANGED <<table, tags_table, call>>

\* lines 132 and 151-153: get_item raises.
OAuthGetFails(p, success_key) ==
    /\ pc[p] = "idle"
    /\ success_key # NoSuccessKey
    /\ req' = [req EXCEPT ![p] = CheckRequest(success_key)]
    /\ start' = [start EXCEPT ![p] = Snapshot]
    /\ Finish(p, [success |-> FALSE, error |-> "Internal server error"], Locals(<<"table.get_item">>))
    /\ UNCHANGED <<table, tags_table, call>>

\* lines 142-149: the flag is deleted and the check succeeds.
OAuthDelete(p) ==
    /\ pc[p] = "delete"
    /\ table' = DeleteItem(table, req[p].success_key)
    /\ Finish(p, [success |-> TRUE, user_email |-> scan[p].item.user_email,
                  user_sub |-> scan[p].item.user_sub],
              [scan[p] EXCEPT !.ops = Append(@, "table.delete_item")])
    /\ UNCHANGED <<tags_table, req, start, call>>

\* lines 143 and 151-153: delete_item raises.
OAuthDeleteFails(p) ==
    /\ pc[p] = "delete"
    /\ Finish(p, [success |-> FALSE, error |-> "Internal server error"],
              [scan[p] EXCEPT !.ops = Append(@, "table.delete_item")])
    /\ UNCHANGED <<table, tags_table, req, start, call>>

\* The users of the model: e1 and e2, whose subs 'xsubsubsub1' and
\* 'ysubsubsub1' end in the same eight characters, and e3 with the sub 's3'.
OAuthUsers ==
    {[user_email |-> <<101, 49>>, user_sub |-> <<120, 115, 117, 98, 115, 117, 98, 115, 117, 98, 49>>],
     [user_email |-> <<101, 50>>, user_sub |-> <<121, 115, 117, 98, 115, 117, 98, 115, 117, 98, 49>>],
     [user_email |-> <<101, 51>>, user_sub |-> <<115, 51>>]}

FirstUser == CHOOSE user \in OAuthUsers : user.user_email = <<101, 49>>

\* A callback that succeeds for each user, and for e1 the callbacks that
\* fail before the flag is stored.
CallbackEvents ==
    {CallbackEvent(FALSE, TRUE, "tokens", TRUE, user) : user \in OAuthUsers}
    \cup {CallbackEvent(TRUE, TRUE, "tokens", TRUE, FirstUser),
          CallbackEvent(FALSE, FALSE, "tokens", TRUE, FirstUser),
          CallbackEvent(FALSE, TRUE, "error", TRUE, FirstUser),
          CallbackEvent(FALSE, TRUE, "no_id_token", TRUE, FirstUser),
          CallbackEvent(FALSE, TRUE, "tokens", FALSE, FirstUser)}

\* int(time.time()) at the callbacks.
FlagTimes == 1..MaxFlags

\* The key of a quote the table may hold.
QuoteKey == <<113, 49>>

OAuthTables == {<<>>, <<[id |-> QuoteKey] @@ StoredQuote(QuoteA, AuthorX)>>}

\* The keys a client asks for: none, the keys the callbacks return, and the
\* key of the quote.
SuccessKeys ==
    {NoSuccessKey, QuoteKey}
    \cup {success_key_of(timestamp, user.user_sub) : timestamp \in FlagTimes, user \in OAuthUsers}

InitOAuth ==
    /\ table \in OAuthTables
    /\ tags_table = {}
    /\ InitProcs
    /\ call = NoCall

NextOAuth ==
    \/ \E p \in Procs, event \in CallbackEvents, timestamp \in FlagTimes : OAuthCallback(p, event, timestamp)
    \/ \E p \in Procs, event \in CallbackEvents : OAuthCallbackStoreFails(p, event)
    \/ \E p \in Procs, success_key \in SuccessKeys : OAuthGet(p, success_key)
    \/ \E p \in Procs, success_key \in SuccessKeys : OAuthGetFails(p, success_key)
    \/ \E p \in Procs : OAuthDelete(p)
    \/ \E p \in Procs : OAuthDeleteFails(p)
    \/ \E p \in Procs : Return(p)

SpecOAuth == InitOAuth /\ [][NextOAuth]_vars

(***************************************************************************)
(* The scheduled delivery of the daily email (SpecDelivery,                *)
(* daily_nuggets_handler.py).  In this specification table is the          *)
(* subscriptions table, its items keyed by the subscriber's email.  A run  *)
(* reads the subscribers, selects those whose local hour is their          *)
(* delivery hour, and sends them the quote one after the other; each send  *)
(* is one step and succeeds or raises.                                     *)
(***************************************************************************)
\* lines 294-319: the offsets, in and out of the daylight saving period.
timezone_offsets(is_dst_period) ==
    ("America/New_York" :> (IF is_dst_period THEN -4 ELSE -5))
    @@ ("America/Chicago" :> (IF is_dst_period THEN -5 ELSE -6))
    @@ ("America/Denver" :> (IF is_dst_period THEN -6 ELSE -7))
    @@ ("America/Los_Angeles" :> (IF is_dst_period THEN -7 ELSE -8))
    @@ ("America/Phoenix" :> -7)
    @@ ("Europe/London" :> (IF is_dst_period THEN 1 ELSE 0))
    @@ ("Europe/Paris" :> (IF is_dst_period THEN 2 ELSE 1))
    @@ ("Asia/Tokyo" :> 9)
    @@ ("Australia/Sydney" :> (IF is_dst_period THEN 11 ELSE 10))

\* line 309: the months March to November.
is_dst_period(current_month) == 3 <= current_month /\ current_month <= 11

\* line 326: the delivery hour of a subscriber with no preference.
DefaultDeliveryHour == 8

\* line 330: timezone_offsets.get(timezone_str, -5)
offset_of(timezone_str, offsets) ==
    IF timezone_str \in DOMAIN offsets THEN offsets[timezone_str] ELSE -5

\* lines 324-335
local_hour(subscriber, hour_utc, offsets) ==
    (hour_utc + offset_of(Get(subscriber, "timezone", "America/New_York"), offsets)) % 24

\* line 326
delivery_hour(subscriber) ==
    Get(Get(subscriber, "notificationPreferences", <<>>), "deliveryHour", DefaultDeliveryHour)

\* lines 285-288: the filter of the scan.
email_subscriber(item) ==
    Get(item, "is_subscribed", FALSE) = TRUE /\ Get(item, "delivery_method", "") = "email"

\* lines 285-290: one scan request; the items of its page that pass the
\* filter.
all_subscribers(t) == SelectSeq(ScanPage(t, NoKey).Items, email_subscriber)

\* lines 322-345
selected_subscribers(subscribers, hour_utc, offsets) ==
    SelectSeq(subscribers, LAMBDA s : local_hour(s, hour_utc, offsets) = delivery_hour(s))

DeliveryEvent(hour_utc) == [route |-> "scheduled_delivery", detail |-> [hour_utc |-> hour_utc]]

\* get_daily_quote returned None.
NoQuote == <<>>

\* The locals of a run: the selected subscribers, the quote, the two
\* counters, and the send attempts made, each the email and whether the
\* send returned.
DeliveryLocals(subscribers) ==
    [subscribers |-> subscribers, quote_data |-> NoQuote, success_count |-> 0, error_count |-> 0,
     attempts |-> <<>>]

\* lines 372-379
delivery_response(hour_utc, s) ==
    [statusCode |-> 200,
     body |-> [message |-> <<"Daily delivery complete for UTC hour", hour_utc>>,
               sent |-> s.success_count, failed |-> s.error_count]]

\* lines 277-282; current_month is the month of the run.
DeliveryBegin(p, event, current_month) ==
    /\ pc[p] = "idle"
    /\ event.route = "scheduled_delivery"
    /\ req' = [req EXCEPT ![p] = event @@ [current_month |-> current_month]]
    /\ start' = [start EXCEPT ![p] = Snapshot]
    /\ Enter(p, "subscriptions_scan", DeliveryLocals(<<>>))
    /\ UNCHANGED <<table, tags_table, call>>

\* lines 285-346: the scan of the subscriptions table, one request, and the
\* choice of the subscribers of this hour among its items.
DeliveryScan(p) ==
    /\ pc[p] = "subscriptions_scan"
    /\ Enter(p, "get_daily_quote",
             DeliveryLocals(selected_subscribers(all_subscribers(table),
                                                 Get(req[p].detail, "hour_utc", 0),
                                                 timezone_offsets(is_dst_period(req[p].current_month)))))
    /\ UNCHANGED <<table, tags_table, req, start, call>>

\* lines 285 and 381-386: the scan of the subscriptions table raises.
DeliveryScanFails(p) ==
    /\ pc[p] = "subscriptions_scan"
    /\ Finish(p, create_response(500, [error |-> "scan failed"]), scan[p])
    /\ UNCHANGED <<table, tags_table, req, start, call>>

\* lines 403-408: the quote get_daily_quote returns for the item chosen.
daily_quote(item) ==
    [id |-> Get(item, "id", <<>>), quote |-> Get(item, "quote", <<>>),
     author |-> Get(item, "author", <<>>), tags |-> Get(item, "tags", <<>>)]

\* lines 349-379, once the quote is read: no quote, no subscriber to send
\* to, or the loop.
DeliveryStart(p, hour_utc, s) ==
    IF s.quote_data = NoQuote
    THEN Finish(p, create_response(500, [error |-> "No quote available"]), s)
    ELSE IF s.subscribers = <<>>
    THEN Finish(p, delivery_response(hour_utc, s), s)
    ELSE Enter(p, "send", s)

\* lines 349 and 388-408: get_daily_quote scans the quotes table, one
\* request, and picks one of the items at random; items are the items the
\* quotes table holds at this moment, k the place of the one picked.
GetDailyQuote(p, items, k) ==
    /\ pc[p] = "get_daily_quote"
    /\ k <= Max(1, Len(items))
    /\ DeliveryStart(p, Get(req[p].detail, "hour_utc", 0),
                     [scan[p] EXCEPT !.quote_data = IF items = <<>> THEN NoQuote ELSE daily_quote(items[k])])
    /\ UNCHANGED <<table, tags_table, req, start, call>>

\* lines 410-412: the scan of the quotes table raises and get_daily_quote
\* returns None.
GetDailyQuoteFails(p) ==
    /\ pc[p] = "get_daily_quote"
    /\ Finish(p, create_response(500, [error |-> "No quote available"]), scan[p])
    /\ UNCHANGED <<table, tags_table, req, start, call>>

\* lines 363-368: the attempt for one subscriber.
after_send(s, email, sent) ==
    [s EXCEPT !.attempts = Append(@, <<email, sent>>),
              !.success_count = IF sent THEN @ + 1 ELSE @,
              !.error_count = IF sent THEN @ ELSE @ + 1]

\* lines 362-379: the loop goes on, or the run answers.
DeliveryAfterSend(p, s) ==
    IF Len(s.attempts) < Len(s.subscribers)
    THEN /\ scan' = [scan EXCEPT ![p] = s]
         /\ UNCHANGED <<pc, resp>>
    ELSE Finish(p, delivery_response(Get(req[p].detail, "hour_utc", 0), s), s)

\* lines 362-368: send_daily_email returns (sent) or raises.
DeliverySend(p, sent) ==
    /\ pc[p] = "send"
    /\ DeliveryAfterSend(p, after_send(scan[p], scan[p].subscribers[Len(scan[p].attempts) + 1].email, sent))
    /\ UNCHANGED <<table, tags_table, req, start, call>>

(***************************************************************************)
(* The subscription requests of a user (update_subscription and            *)
(* delete_subscription), each table request a step.                        *)
(***************************************************************************)
SubscriptionEvent(route, email, body) == [route |-> route, email |-> email, body |-> body]

\* lines 205-224: notification_preferences with its deliveryHour, the
\* default when the body gives none.
stored_preferences(notification_preferences) ==
    IF notification_preferences = <<>> THEN [deliveryHour |-> DefaultDeliveryHour]
    ELSE IF Has(notification_preferences, "deliveryHour") THEN notification_preferences
    ELSE notification_preferences @@ [deliveryHour |-> DefaultDeliveryHour]

\* lines 196-224: the item update_subscription builds; the model keeps the
\* key of the item as its id as well.
subscription_item(email, body, timestamp) ==
    [id |-> email, email |-> email,
     is_subscribed |-> Get(body, "is_subscribed", FALSE),
     delivery_method |-> Get(body, "delivery_method", "email"),
     timezone |-> Get(body, "timezone", "America/New_York"),
     created_at |-> timestamp, updated_at |-> timestamp,
     notificationPreferences |-> stored_preferences(Get(body, "notification_preferences", <<>>))]

\* lines 193-224
UpdateSubscription(p, event, timestamp) ==
    /\ pc[p] = "idle"
    /\ event.route = "update_subscription"
    /\ req' = [req EXCEPT ![p] = event]
    /\ start' = [start EXCEPT ![p] = Snapshot]
    /\ Enter(p, "subscription_get", [ops |-> <<>>, item |-> subscription_item(event.email, event.body, timestamp)])
    /\ UNCHANGED <<table, tags_table, call>>

\* lines 227-229: get_item; the created_at of an existing item is kept.
UpdateSubscriptionGetItem(p) ==
    /\ pc[p] = "subscription_get"
    /\ Enter(p, "subscription_put",
             [Issue(scan[p], "subscriptions_table.get_item") EXCEPT
                 !.item.created_at = IF req[p].email \in Ids(table)
                                     THEN Get(Lookup(table, req[p].email), "created_at", @)
                                     ELSE @])
    /\ UNCHANGED <<table, tags_table, req, start, call>>

\* lines 232-243: put_item and the response.
UpdateSubscriptionPutItem(p) ==
    /\ pc[p] = "subscription_put"
    /\ table' = PutItem(table, scan[p].item)
    /\ Finish(p, [statusCode |-> 200,
                  body |-> [message |-> "Subscription updated successfully", subscription |-> scan[p].item]],
              Issue(scan[p], "subscriptions_table.put_item"))
    /\ UNCHANGED <<tags_table, req, start, call>>

\* lines 245-251: get_item or put_item raises.
UpdateSubscriptionFails(p) ==
    /\ pc[p] \in {"subscription_get", "subscription_put"}
    /\ Finish(p, [statusCode |-> 500, body |-> [error |-> "Failed to update subscription"]],
              Issue(scan[p], IF pc[p] = "subscription_get" THEN "subscriptions_table.get_item"
                             ELSE "subscriptions_table.put_item"))
    /\ UNCHANGED <<table, tags_table, req, start, call>>

\* line 254
DeleteSubscription(p, event) ==
    /\ pc[p] = "idle"
    /\ event.route = "delete_subscription"
    /\ req' = [req EXCEPT ![p] = event]
    /\ start' = [start EXCEPT ![p] = Snapshot]
    /\ Enter(p, "subscription_delete", Locals(<<>>))
    /\ UNCHANGED <<table, tags_table, call>>

\* lines 256-267: delete_item and the response.
DeleteSubscriptionDeleteItem(p) ==
    /\ pc[p] = "subscription_delete"
    /\ table' = DeleteItem(table, req[p].email)
    /\ Finish(p, [statusCode |-> 200, body |-> [message |-> "Subscription deleted successfully"]],
              Issue(scan[p], "subscriptions_table.delete_item"))
    /\ UNCHANGED <<tags_table, req, start, call>>

\* lines 269-275: delete_item raises.
DeleteSubscriptionFails(p) ==
    /\ pc[p] = "subscription_delete"
    /\ Finish(p, [statusCode |-> 500, body |-> [error |-> "Failed to delete subscription"]],
              Issue(scan[p], "subscriptions_table.delete_item"))
    /\ UNCHANGED <<table, tags_table, req, start, call>>

\* The subscribers of the model: one in New York, one in Tokyo, one with no
\* timezone and no preference, one in a zone the handler does not know, who
\* all want the mail at 8, and one who gets push notifications.
Subscriber(timezone_str) ==
    [is_subscribed |-> TRUE, delivery_method |-> "email", timezone |-> timezone_str,
     notificationPreferences |-> [deliveryHour |-> DefaultDeliveryHour]]

SubscriberPool ==
    {Subscriber("America/New_York"), Subscriber("Asia/Tokyo"), Subscriber("Africa/Cairo"),
     [is_subscribed |-> TRUE, delivery_method |-> "email"],
     [Subscriber("America/New_York") EXCEPT !.delivery_method = "push"]}

\* The subscriptions table holds at most MaxSubscribers items.
MaxSubscribers == 3

WithEmails(attrs) == [i \in 1..Len(attrs) |-> [id |-> i, email |-> i] @@ attrs[i]]

SubscriptionTables == {WithEmails(c) : c \in SeqsUpTo(SubscriberPool, MaxSubscribers)}

\* The hours at which it is 8 in New York (in and out of the daylight
\* saving period) and in Tokyo, and a run with no hour in its event.
DeliveryEvents ==
    {DeliveryEvent(h) : h \in {12, 13, 23}} \cup {[route |-> "scheduled_delivery", detail |-> <<>>]}

Months == {1, 7}

\* What the scan of get_daily_quote finds in the quotes table.
DailyQuoteScans == {<<>>, WithIds(<<StoredQuote(QuoteA, AuthorX)>>),
                    WithIds(<<StoredQuote(QuoteA, AuthorX), AuthorlessQuote>>)}

\* The bodies of the subscription requests: no preference given, a
\* subscription by email in Tokyo, and push notifications.
SubscriptionBodies ==
    {<<>>,
     [is_subscribed |-> TRUE, timezone |-> "Asia/Tokyo"],
     [is_subscribed |-> TRUE, delivery_method |-> "push", notification_preferences |-> [enablePush |-> TRUE]]}

\* The users who change their subscriptions.
SubscriptionEmails == 1..MaxSubscribers

SubscriptionEvents ==
    {SubscriptionEvent("update_subscription", email, body) : email \in SubscriptionEmails, body \in SubscriptionBodies}
    \cup {SubscriptionEvent("delete_subscription", email, <<>>) : email \in SubscriptionEmails}

InitDelivery ==
    /\ table \in SubscriptionTables
    /\ tags_table = {}
    /\ InitProcs
    /\ call = NoCall

\* One invocation at a time: a run of the delivery, or a request of a user.
NextDelivery ==
    \/ \E event \in DeliveryEvents, month \in Months : DeliveryBegin(Main, event, month)
    \/ DeliveryScan(Main)
    \/ DeliveryScanFails(Main)
    \/ \E items \in DailyQuoteScans, k \in 1..2 : GetDailyQuote(Main, items, k)
    \/ GetDailyQuoteFails(Main)
    \/ \E sent \in BOOLEAN : DeliverySend(Main, sent)
    \/ \E event \in SubscriptionEvents, ts \in Timestamps : UpdateSubscription(Main, event, ts)
    \/ UpdateSubscriptionGetItem(Main)
    \/ UpdateSubscriptionPutItem(Main)
    \/ UpdateSubscriptionFails(Main)
    \/ \E event \in SubscriptionEvents : DeleteSubscription(Main, event)
    \/ DeleteSubscriptionDeleteItem(Main)
    \/ DeleteSubscriptionFails(Main)
    \/ Return(Main)

SpecDelivery == InitDelivery /\ [][NextDelivery]_vars

(***************************************************************************)
(* Properties of the create and check-duplicate handlers (Spec).  An       *)
(* invocation p that has answered is at pc[p] = "done": req[p] is its      *)
(* event, scan[p] what its scan did, resp[p] its response and start[p] the *)
(* tables as they were when it began.                                      *)
(***************************************************************************)

\* C1: on the create path, when the completed duplicate scan found at least
\* one match the request is answered 409 and nothing is written: the quotes
\* table (the tags metadata record included) and the tags table are as they
\* were before the request.
C1_ConflictWritesNothing ==
    \A p \in Procs :
        (/\ pc[p] = "done"
         /\ req[p].route = "create"
         /\ scan[p].complete
         /\ scan[p].duplicates_found # <<>>)
        => /\ resp[p].statusCode = 409
           /\ table = start[p].table
           /\ tags_table = start[p].tags_table

\* C1 witness: a create request answered 409 after a scan of several pages
\* over a table that holds a metadata record.
C1_Witness ==
    /\ pc[Main] = "done"
    /\ req[Main].route = "create"
    /\ scan[Main].complete
    /\ scan[Main].pages >= 2
    /\ scan[Main].duplicates_found # <<>>
    /\ resp[Main].statusCode = 409
    /\ METADATA_ID \in Ids(table)

\* C2: on the create path, when a page request of the scan fails, on the
\* first page or after earlier pages yielded matches, the response is 201
\* (no conflict, no error) and the new quote, with the stripped quote and
\* author of the request under an id the table did not hold, is in the table.
C2_ScanFailureFailsOpen ==
    \A p \in Procs :
        (/\ pc[p] = "done"
         /\ req[p].route = "create"
         /\ scan[p].failed)
        => /\ resp[p].statusCode = 201
           /\ \E i \in 1..Len(table) :
                /\ table[i] = resp[p].body.quote
                /\ table[i].id \notin Ids(start[p].table)
                /\ table[i].quote = Strip(req[p].data.quote)
                /\ table[i].author = Strip(req[p].data.author)
           /\ Len(table) > Len(start[p].table)

\* C2 amended: on the create path, when a page request of the scan fails,
\* on the first page or after earlier pages yielded matches, the request is
\* never answered with a conflict and the handler goes on to the write.
\* When put_item returns, the response is 201 and the new quote, with the
\* stripped quote and author of the request under an id the table did not
\* hold, is in the table; when put_item raises, the response is 500
\* "Internal server error" and the table is as the request found it.
C2_ScanFailureGoesOnToWrite ==
    \A p \in Procs :
        (/\ pc[p] = "done"
         /\ req[p].route = "create"
         /\ scan[p].failed)
        => /\ resp[p].statusCode # 409
           /\ ~Has(resp[p].body, "is_duplicate")
           /\ ~scan[p].put_failed =>
                /\ resp[p].statusCode = 201
                /\ \E i \in 1..Len(table) :
                     /\ table[i] = resp[p].body.quote
                     /\ table[i].id \notin Ids(start[p].table)
                     /\ table[i].quote = Strip(req[p].data.quote)
                     /\ table[i].author = Strip(req[p].data.author)
                /\ Len(table) > Len(start[p].table)
           /\ scan[p].put_failed =>
                /\ resp[p] = create_response(500, [error |-> "Internal server error"])
                /\ table = start[p].table

\* C2 witness: the second page request fails after the first page yielded a
\* match, put_item returns, and the request is answered 201.
C2_Witness ==
    /\ pc[Main] = "done"
    /\ req[Main].route = "create"
    /\ scan[Main].failed
    /\ scan[Main].pages >= 2
    /\ scan[Main].duplicates_found # <<>>
    /\ ~scan[Main].put_failed
    /\ resp[Main].statusCode = 201

\* C3: on the check-duplicate path, when a page request of the scan fails
\* the response is 500 and carries no result: no is_duplicate, no
\* duplicate_count and no duplicates list.
C3_CheckScanFailureIsError ==
    \A p \in Procs :
        (/\ pc[p] = "done"
         /\ req[p].route = "check"
         /\ scan[p].failed)
        => /\ resp[p].statusCode = 500
           /\ ~Has(resp[p].body, "is_duplicate")
           /\ ~Has(resp[p].body, "duplicate_count")
           /\ ~Has(resp[p].body, "duplicates")

\* C3 witness: a check request whose second page request fails after the
\* first page yielded a match.
C3_Witness ==
    /\ pc[Main] = "done"
    /\ req[Main].route = "check"
    /\ scan[Main].failed
    /\ scan[Main].pages >= 2
    /\ scan[Main].duplicates_found # <<>>
    /\ resp[Main].statusCode = 500

\* C4: at both call sites a scan that completes is exhaustive: it iterated
\* over every item of the table, page after page in the order of the store,
\* until a page carried no continuation key; every record with an id other
\* than the sentinel, a non-empty quote and an author was compared; and the
\* matches found are, in order, exactly the compared records that
\* are_similar_quotes classifies as a match of the candidate, each with the
\* reason it returns.
C4_ScanIsExhaustive ==
    \A p \in Procs :
        (/\ pc[p] = "done"
         /\ req[p].route \in {"create", "check"}
         /\ scan[p].complete)
        => LET t == start[p].table
               s == scan[p]
               verdict(id) ==
                   are_similar_quotes(Strip(req[p].data.quote), Strip(req[p].data.author),
                                      Get(Lookup(t, id), "quote", <<>>),
                                      Get(Lookup(t, id), "author", <<>>))
               matching == SelectSeq(s.compared, LAMBDA id : verdict(id)[1])
           IN  /\ s.visited = IdsOf(t)
               /\ s.ExclusiveStartKey = NoKey
               /\ s.pages >= 1
               /\ s.pages * PageSize >= Len(t)
               /\ \A i \in 1..Len(t) :
                      (/\ t[i].id # METADATA_ID
                       /\ Get(t[i], "quote", <<>>) # <<>>
                       /\ Has(t[i], "author"))
                      => t[i].id \in Range(s.compared)
               /\ IdsOf(s.duplicates_found) = matching
               /\ \A i \in 1..Len(s.duplicates_found) :
                      s.duplicates_found[i].match_reason
                          = verdict(s.duplicates_found[i].id)[2]

\* C4 witness: a create request whose scan took three pages or more, found a
\* match in the first record it compared and another one later, and compared
\* a record that is no match.
C4_Witness ==
    /\ pc[Main] = "done"
    /\ req[Main].route = "create"
    /\ scan[Main].complete
    /\ scan[Main].pages >= 3
    /\ Len(scan[Main].duplicates_found) >= 2
    /\ Len(scan[Main].duplicates_found) < Len(scan[Main].compared)
    /\ scan[Main].duplicates_found[1].id = scan[Main].compared[1]

\* C5: when the scan found n matches, the response of either call site
\* lists the first min(5, n) of them in the order the scan met them,
\* duplicate_count is n, and is_duplicate is true exactly when n > 0; the
\* matches are in the order of the scan, which is the order of the ids.
C5_FirstFiveAndTrueCount ==
    \A p \in Procs :
        (/\ pc[p] = "done"
         /\ \/ req[p].route = "create" /\ resp[p].statusCode = 409
            \/ req[p].route = "check" /\ resp[p].statusCode = 200)
        => LET found == scan[p].duplicates_found
               n == Len(found)
               shown == IF n < 5 THEN n ELSE 5
           IN  /\ resp[p].body.duplicates = [i \in 1..shown |-> found[i]]
               /\ resp[p].body.duplicate_count = n
               /\ resp[p].body.is_duplicate = (n > 0)
               /\ \A i, j \in 1..n : i < j => found[i].id < found[j].id

\* C5 witness: a check request that found six matches and lists five.
C5_Witness ==
    /\ pc[Main] = "done"
    /\ req[Main].route = "check"
    /\ resp[Main].statusCode = 200
    /\ Len(scan[Main].duplicates_found) > 5
    /\ Len(resp[Main].body.duplicates) = 5
    /\ resp[Main].body.duplicate_count = 6

\* C6: at both call sites a record whose id is the metadata sentinel, or
\* that has no quote attribute, or no author attribute, is never handed to
\* are_similar_quotes and never listed among the duplicates found.
C6_SentinelAndPartialRecordsSkipped ==
    \A p \in Procs :
        req[p].route \in {"create", "check"} =>
            \A id \in Range(scan[p].compared) \cup Range(IdsOf(scan[p].duplicates_found)) :
                /\ id # METADATA_ID
                /\ Has(Lookup(start[p].table, id), "quote")
                /\ Has(Lookup(start[p].table, id), "author")

\* C8: a check-duplicate request, whatever its outcome, leaves both tables
\* as they were when it began.
C8_CheckNeverWrites ==
    \A p \in Procs :
        req[p].route = "check" =>
            /\ table = start[p].table
            /\ tags_table = start[p].tags_table

\* C8 witness: a check request answered "not found" after a completed scan
\* of a table that holds quotes.
C8_Witness ==
    /\ pc[Main] = "done"
    /\ req[Main].route = "check"
    /\ scan[Main].complete
    /\ Len(scan[Main].compared) >= 1
    /\ resp[Main].statusCode = 200
    /\ ~resp[Main].body.is_duplicate

\* C9: on the create and the check-duplicate path, a request of an admin
\* whose body parses and whose quote or author is missing, empty or made of
\* whitespace only is answered 400 at once: it never is in the scan, no page
\* was requested, and both tables are as they were.
C9_BlankFieldsRejectedBeforeScan ==
    \A p \in Procs :
        LET blank(field) ==
                \/ ~Has(req[p].data, field)
                \/ \A i \in 1..Len(req[p].data[field]) : IsSpace(req[p].data[field][i])
        IN  (/\ req[p].route \in {"create", "check"}
             /\ req[p].is_admin
             /\ req[p].json_ok
             /\ blank("quote") \/ blank("author"))
            => /\ pc[p] = "done"
               /\ resp[p].statusCode = 400
               /\ scan[p].pages = 0
               /\ scan[p].visited = <<>>
               /\ table = start[p].table
               /\ tags_table = start[p].tags_table

\* C9 witness: a create request with a whitespace-only quote and an author,
\* answered 400 over a table that holds quotes.
C9_Witness ==
    /\ pc[Main] = "done"
    /\ req[Main].route = "create"
    /\ req[Main].is_admin
    /\ req[Main].json_ok
    /\ Has(req[Main].data, "quote")
    /\ req[Main].data.quote = <<SPACE>>
    /\ Has(req[Main].data, "author")
    /\ req[Main].data.author = AuthorX
    /\ resp[Main].statusCode = 400
    /\ table # <<>>

(***************************************************************************)
(* Properties of the pure functions (SpecSim, SpecClassify).               *)
(***************************************************************************)

\* C7: are_similar_quotes normalizes its four inputs and returns the first
\* rule that holds, in the order exact_match (normalized quotes equal and
\* normalized authors equal), similar_quote_same_author (quote similarity
\* >= 0.90 and normalized authors equal), same_quote_similar_author
\* (normalized quotes equal and author similarity >= 0.85), both_similar
\* (quote similarity >= 0.95 and author similarity >= 0.90); it returns
\* (False, None) exactly when none of the four holds.
C7_FirstRuleThatHolds ==
    (call.fn = "are_similar_quotes" /\ call.done) =>
        LET nq1 == normalize_text(call.args[1])
            na1 == normalize_text(call.args[2])
            nq2 == normalize_text(call.args[3])
            na2 == normalize_text(call.args[4])
            qs == calculate_similarity(nq1, nq2)
            as == calculate_similarity(na1, na2)
            rule1 == nq1 = nq2 /\ na1 = na2
            rule2 == qs.num * 100 >= 90 * qs.den /\ na1 = na2
            rule3 == nq1 = nq2 /\ as.num * 100 >= 85 * as.den
            rule4 == qs.num * 100 >= 95 * qs.den /\ as.num * 100 >= 90 * as.den
            first == IF rule1 THEN "exact_match"
                     ELSE IF rule2 THEN "similar_quote_same_author"
                     ELSE IF rule3 THEN "same_quote_similar_author"
                     ELSE IF rule4 THEN "both_similar"
                     ELSE "None"
        IN  /\ call.verdict[1] = (rule1 \/ rule2 \/ rule3 \/ rule4)
            /\ call.verdict[2].rule = first
            /\ call.verdict[1] = (call.verdict[2] # NoReason)

\* C7 witness: the last rule fires with both scores on their thresholds,
\* a quote similarity of 19/20 and an author similarity of 9/10.
C7_Witness ==
    /\ call.fn = "are_similar_quotes"
    /\ call.done
    /\ call.verdict = <<TRUE, Reason("both_similar", <<95, 90>>)>>
    /\ Len(call.args[1]) = 20
    /\ Len(call.args[2]) = 10

\* C10: calculate_similarity(a, b) lies in [0, 1] for all strings a and b,
\* in the character branch and in the word branch, repeated words included.
C10_SimilarityInUnitInterval ==
    (call.fn = "calculate_similarity" /\ call.done) =>
        /\ call.similarity.den > 0
        /\ 0 <= call.similarity.num
        /\ call.similarity.num <= call.similarity.den

\* C11: calculate_similarity is symmetric: the score of (a, b) is the score
\* of (b, a), in the character branch and in the word branch.
C11_SimilaritySymmetric ==
    (call.fn = "calculate_similarity" /\ call.done) =>
        LET swapped == calculate_similarity(call.args[2], call.args[1])
        IN  call.similarity.num * swapped.den = swapped.num * call.similarity.den

\* C13: calculate_similarity(x, x) is 1 for every non-empty x, the score of
\* two empty strings is 1, and the score of an empty string and a non-empty
\* one, in either order, is 0.
C13_SimilarityOfEqualAndEmpty ==
    (call.fn = "calculate_similarity" /\ call.done) =>
        LET a == call.args[1]
            b == call.args[2]
            r == call.similarity
        IN  /\ r.den > 0
            /\ (a = <<>> /\ b = <<>>) => r.num = r.den
            /\ ((a = <<>>) # (b = <<>>)) => r.num = 0
            /\ (a = b /\ a # <<>>) => r.num = r.den

\* C13 witness: a text of several words scored against itself.
C13_Witness ==
    /\ call.fn = "calculate_similarity"
    /\ call.done
    /\ call.args[1] = call.args[2]
    /\ Len(call.args[1]) >= 7
    /\ call.similarity.num = call.similarity.den

\* C19: for non-empty a and b whose lengths differ by at most 3 the score
\* is the number of positions, within the shorter text, where the two hold
\* the same character, divided by the greater length; when the lengths
\* differ by more than 3 the score is the one of the word branch, twice the
\* number of words of a longer than 2 characters that b holds, over the
\* number of words of a plus the number of words of b.
C19_CharacterBranch ==
    (call.fn = "calculate_similarity" /\ call.done
     /\ call.args[1] # <<>> /\ call.args[2] # <<>>) =>
        LET a == call.args[1]
            b == call.args[2]
            r == call.similarity
            shorter == IF Len(a) < Len(b) THEN Len(a) ELSE Len(b)
            longer == IF Len(a) < Len(b) THEN Len(b) ELSE Len(a)
            same == Cardinality({i \in 1..shorter : a[i] = b[i]})
            wa == Split(a, SPACE)
            wb == Split(b, SPACE)
            held == Cardinality({i \in 1..Len(wa) :
                                   Len(wa[i]) > 2 /\ \E j \in 1..Len(wb) : wb[j] = wa[i]})
        IN  IF longer - shorter <= 3
            THEN r.num * longer = same * r.den
            ELSE r.num * (Len(wa) + Len(wb)) = 2 * held * r.den

\* C19 witness: two texts of different lengths, three characters apart,
\* that agree in some positions and differ in others.
C19_Witness ==
    /\ call.fn = "calculate_similarity"
    /\ call.done
    /\ Len(call.args[1]) = 1
    /\ Len(call.args[2]) = 4
    /\ call.similarity.num = 1
    /\ call.similarity.den = 4

\* C20: for non-empty a and b whose lengths differ by more than 3
\* the score is 2 * c / (wa + wb), wa and wb the numbers of pieces a and b
\* split into on single spaces and c the number of words longer than 2
\* characters that are present in both lists.
C20_WordBranchAsStated ==
    (call.fn = "calculate_similarity" /\ call.done
     /\ call.args[1] # <<>> /\ call.args[2] # <<>>
     /\ Abs(Len(call.args[1]) - Len(call.args[2])) > 3) =>
        LET wa == Split(call.args[1], SPACE)
            wb == Split(call.args[2], SPACE)
            c == Cardinality({w \in Range(wa) \cap Range(wb) : Len(w) > 2})
        IN  call.similarity.num * (Len(wa) + Len(wb)) = 2 * c * call.similarity.den

(***************************************************************************)
(* Properties of normalize_text (SpecNorm): call.texts[1] is the result on *)
(* the argument, call.texts[2] the result on call.texts[1].                *)
(***************************************************************************)

\* C12: normalize_text is idempotent: applied to its own result it returns
\* that result.
C12_NormalizeIdempotent ==
    (call.fn = "normalize_text" /\ Len(call.texts) >= 2) =>
        call.texts[2] = call.texts[1]

\* C14: normalize_text maps the curly double quotes to the straight double
\* quote, the curly single quotes to the apostrophe, the two dashes to the
\* hyphen and the ellipsis glyph to three periods: none of these glyphs is
\* left in the result, and a text has the result of the text with its curly
\* quotes written straight.
C14_GlyphsMapped ==
    (call.fn = "normalize_text" /\ Len(call.texts) >= 1) =>
        LET text == call.args[1]
            straight(c) == IF c \in {LDQUOTE, RDQUOTE} THEN DQUOTE
                           ELSE IF c \in {LSQUOTE, RSQUOTE} THEN SQUOTE
                           ELSE c
            straightened == [i \in 1..Len(text) |-> straight(text[i])]
        IN  /\ \A i \in 1..Len(call.texts[1]) :
                   call.texts[1][i] \notin Glyphs \cup {ELLIPSIS}
            /\ call.texts[1] = normalize_text(straightened)

\* C18: the result of normalize_text neither begins nor ends with a
\* whitespace character.
C18_NormalizedIsTrimmed ==
    (call.fn = "normalize_text" /\ Len(call.texts) >= 1 /\ call.texts[1] # <<>>) =>
        /\ ~IsSpace(call.texts[1][1])
        /\ ~IsSpace(call.texts[1][Len(call.texts[1])])

(***************************************************************************)
(* Properties of are_similar_quotes on the worked examples (SpecCases).    *)
(***************************************************************************)

\* C15: are_similar_quotes returns (True, exact_match) whenever the two
\* quotes, and the two authors, differ only in letter case and in the number
\* of trailing periods, as in the call ("Be yourself.", "Oscar Wilde",
\* "be yourself", "oscar wilde.").
C15_CaseAndTrailingPeriods ==
    (/\ call.fn = "are_similar_quotes"
     /\ call.done
     /\ Lower(RStrip(call.args[1], {DOT})) = Lower(RStrip(call.args[3], {DOT}))
     /\ Lower(RStrip(call.args[2], {DOT})) = Lower(RStrip(call.args[4], {DOT})))
    => call.verdict = <<TRUE, Reason("exact_match", <<>>)>>

\* C16 as stated: when the existing quote is the candidate followed by at
\* most 3 characters and the authors are equal, the verdict is true exactly
\* when len(candidate) / len(existing) >= 0.90.
C16_AppendedCharactersAsStated ==
    (/\ call.fn = "are_similar_quotes"
     /\ call.done
     /\ call.args[2] = call.args[4]
     /\ Len(call.args[3]) - Len(call.args[1]) \in 0..3
     /\ SubSeq(call.args[3], 1, Len(call.args[1])) = call.args[1])
    => call.verdict[1] = (Len(call.args[1]) * 100 >= 90 * Len(call.args[3]))

\* C16: when the normalized existing quote is the normalized candidate
\* followed by at most 3 characters and the normalized authors are equal,
\* the score is the one of the character branch, len(candidate) /
\* len(existing) of the normalized texts, the verdict is true exactly when
\* it is >= 0.90, and the reason of a match of different texts is
\* similar_quote_same_author; the call on "The only way to do great work is
\* to love what you do" (52 characters), with "!!" appended, both by "Steve
\* Jobs", returns (True, similar_quote_same_author_0.96).
C16_AppendedCharacters ==
    (call.fn = "are_similar_quotes" /\ call.done) =>
        LET nq1 == normalize_text(call.args[1])
            na1 == normalize_text(call.args[2])
            nq2 == normalize_text(call.args[3])
            na2 == normalize_text(call.args[4])
            score == calculate_similarity(nq1, nq2)
        IN  /\ (/\ na1 = na2
                /\ Len(nq2) - Len(nq1) \in 0..3
                /\ SubSeq(nq2, 1, Len(nq1)) = nq1)
               => /\ call.verdict[1] = (Len(nq1) * 100 >= 90 * Len(nq2))
                  /\ nq2 # <<>> => score.num * Len(nq2) = Len(nq1) * score.den
                  /\ (call.verdict[1] /\ nq1 # nq2)
                     => call.verdict[2].rule = "similar_quote_same_author"
            /\ call.args = JobsCall
               => /\ Len(nq1) = 52
                  /\ score.num * 54 = 52 * score.den
                  /\ call.verdict = <<TRUE, Reason("similar_quote_same_author", <<96>>)>>

\* C16 witness: the call on the text of 52 characters and the same text with
\* "!!" appended.
C16_Witness ==
    /\ call.fn = "are_similar_quotes"
    /\ call.done
    /\ call.args = JobsCall
    /\ call.verdict[1]
    /\ call.verdict[2].rule = "similar_quote_same_author"

\* C17: on "Life is what happens when you're busy making other plans" and
\* "Life is what happens to you while you're busy making other plans", both
\* by "John Lennon", the normalized lengths differ by more than 3, the texts
\* have 10 and 12 words, 8 words of the first longer than 2 characters occur
\* in the second, the score is 16/22, below 0.90, and the result is
\* (False, None).
C17_LennonExample ==
    (call.fn = "are_similar_quotes" /\ call.done /\ call.args = LennonCall) =>
        LET nq1 == normalize_text(call.args[1])
            nq2 == normalize_text(call.args[3])
            w1 == Split(nq1, SPACE)
            w2 == Split(nq2, SPACE)
            score == calculate_similarity(nq1, nq2)
        IN  /\ Abs(Len(nq1) - Len(nq2)) > 3
            /\ Len(w1) = 10
            /\ Len(w2) = 12
            /\ Cardinality({i \in 1..Len(w1) :
                              Len(w1[i]) > 2 /\ \E j \in 1..Len(w2) : w2[j] = w1[i]}) = 8
            /\ score.num * 22 = 16 * score.den
            /\ score.num * 100 < 90 * score.den
            /\ call.verdict = <<FALSE, NoReason>>

\* C17 witness: the call on the two texts has returned no match.
C17_Witness ==
    /\ call.fn = "are_similar_quotes"
    /\ call.done
    /\ call.args = LennonCall
    /\ ~call.verdict[1]

(***************************************************************************)
(* Further properties of are_similar_quotes (SpecClassify).                *)
(***************************************************************************)

\* C21: the four reasons are mutually exclusive by priority: a verdict of
\* same_quote_similar_author is returned only when the normalized authors
\* differ, a verdict of both_similar only when the normalized quotes differ
\* and the normalized authors differ, and no input gets a reason while the
\* condition of an earlier rule also holds.
C21_ReasonsExclusiveByPriority ==
    (call.fn = "are_similar_quotes" /\ call.done) =>
        LET nq1 == normalize_text(call.args[1])
            na1 == normalize_text(call.args[2])
            nq2 == normalize_text(call.args[3])
            na2 == normalize_text(call.args[4])
            qs == calculate_similarity(nq1, nq2)
            as == calculate_similarity(na1, na2)
            rule1 == nq1 = nq2 /\ na1 = na2
            rule2 == qs.num * 100 >= 90 * qs.den /\ na1 = na2
            rule3 == nq1 = nq2 /\ as.num * 100 >= 85 * as.den
            rule == call.verdict[2].rule
        IN  /\ rule = "same_quote_similar_author" => na1 # na2
            /\ rule = "both_similar" => (nq1 # nq2 /\ na1 # na2)
            /\ rule = "similar_quote_same_author" => ~rule1
            /\ rule = "same_quote_similar_author" => (~rule1 /\ ~rule2)
            /\ rule = "both_similar" => (~rule1 /\ ~rule2 /\ ~rule3)

\* C21 witness: equal quotes and authors that differ in one character of
\* ten give same_quote_similar_author at 0.90, a score at which both_similar
\* would hold as well were it tested first.
C21_Witness ==
    /\ call.fn = "are_similar_quotes"
    /\ call.done
    /\ call.verdict = <<TRUE, Reason("same_quote_similar_author", <<90>>)>>
    /\ call.args[1] = call.args[3]
    /\ call.args[2] # call.args[4]

\* C24: classify is symmetric in the two quote and author pairs:
\* classify(q1, a1, q2, a2) reports a match exactly when
\* classify(q2, a2, q1, a1) does.
C24_ClassifySymmetric ==
    (call.fn = "are_similar_quotes" /\ call.done) =>
        call.verdict[1] = are_similar_quotes(call.args[3], call.args[4],
                                             call.args[1], call.args[2])[1]


(***************************************************************************)
(* Properties of create requests in sequence and in parallel (SpecSeq,     *)
(* SpecConc).                                                              *)
(***************************************************************************)

\* C23: starting from a table in which no two quote records are exact
\* matches of each other, any sequence of create requests processed one at
\* a time, with no scan failing, leaves a table in which no two quote
\* records have equal normalized quote and equal normalized author.
C23_NoExactMatchPairs == NoExactPairs(table)

\* C23 witness: after a request was written, a request whose texts differ
\* from the written ones as given but not once normalized is answered 409,
\* and the scan that found the match took more than one page.
C23_Witness ==
    /\ pc[Main] = "done"
    /\ resp[Main].statusCode = 409
    /\ scan[Main].pages > 1
    /\ \E i \in 1..Len(table) :
           /\ Get(table[i], "created_at", "T0") # "T0"
           /\ table[i].quote # Strip(req[Main].data.quote)
           /\ normalize_text(table[i].quote) = normalize_text(req[Main].data.quote)
           /\ normalize_text(table[i].author) = normalize_text(req[Main].data.author)

\* C22: two concurrent create requests carrying the same quote and author,
\* against a table that holds no matching record, do not both succeed: at
\* most one of them writes a record and returns 201.
C22_AtMostOneCreated ==
    ~(/\ pc["p1"] = "done" /\ pc["p2"] = "done"
      /\ req["p1"].data = req["p2"].data
      /\ resp["p1"].statusCode = 201
      /\ resp["p2"].statusCode = 201)

(***************************************************************************)
(* Properties of the tag routes (SpecTags).                                *)
(***************************************************************************)

\* C26: cleanup of unused tags never deletes from the tags table a tag that
\* appears in the tags of some stored quote, also when the quotes span
\* several scan pages or when reading the quotes fails.  No tag route adds
\* a tag to a quote, so a tag that a quote carries now was carried when the
\* cleanup deleted it.
C26_CleanupKeepsUsedTags ==
    \A p \in Procs :
        (pc[p] \in {"cleanup_delete", "done"} /\ req[p].route = "cleanup" /\ Has(scan[p], "removed")) =>
            \A tag \in scan[p].removed :
                \A i \in 1..Len(table) :
                    table[i].id # METADATA_ID => tag \notin Range(item_tags(table[i]))

\* C29: when an admin adds a tag whose non-empty name is not among the
\* existing tags, the request is answered 201 and the new tag is included
\* in the tags that a subsequent list-tags request returns, whether or not
\* other tags exist.  The list-tags request of the other invocation is a
\* subsequent one when it began after the add request was answered.  The
\* property is stated of requests none of whose table requests raised.
C29_AddedTagIsListed ==
    (/\ pc[Main] = "done"
     /\ req[Main].route = "add_tag"
     /\ req[Main].is_admin
     /\ req[Main].json_ok
     /\ Strip(Get(req[Main].data, "tag", <<>>)) # <<>>
     /\ Strip(Get(req[Main].data, "tag", <<>>)) \notin start[Main].tags_table
     /\ ~scan[Main].raised) =>
        /\ resp[Main].statusCode = 201
        /\ (/\ pc[Other] = "done"
            /\ req[Other].route = "get_tags"
            /\ ~scan[Other].raised
            /\ Main \in start[Other].answered) =>
               \E i \in 1..Len(resp[Other].body.tags) :
                   resp[Other].body.tags[i].name = Strip(req[Main].data.tag)

(***************************************************************************)
(* Properties of the update route (SpecUpdate).                            *)
(***************************************************************************)

\* C27: a successful update of a quote changes only its quote, author, tags,
\* updated_at and updated_by: the id, created_at, created_by and every
\* other attribute the stored record had, such as an image_url saved
\* earlier, keep their value.
C27_UpdateKeepsOtherAttributes ==
    (/\ pc[Main] = "done"
     /\ req[Main].route = "update"
     /\ resp[Main].statusCode = 200) =>
        /\ req[Main].pathParameters.id \in Ids(table)
        /\ \A attr \in DOMAIN Lookup(start[Main].table, req[Main].pathParameters.id)
                          \ {"quote", "author", "tags", "updated_at", "updated_by"} :
               /\ attr \in DOMAIN Lookup(table, req[Main].pathParameters.id)
               /\ Lookup(table, req[Main].pathParameters.id)[attr]
                      = Lookup(start[Main].table, req[Main].pathParameters.id)[attr]

(***************************************************************************)
(* Properties of the admin gate (SpecGate).                                *)
(***************************************************************************)

\* C25: for every admin route of the admin handler, a request from a caller
\* who is not an admin is answered with 403 before any table access: no
\* scan, read, write or delete is issued and both tables are unchanged.
C25_NonAdminForbiddenBeforeAccess ==
    \A p \in Procs :
        (pc[p] = "done" /\ req[p].route \in Routes /\ ~req[p].is_admin) =>
            /\ resp[p] = Forbidden
            /\ scan[p] \in {NewScan, Locals(<<>>)}
            /\ table = start[p].table
            /\ tags_table = start[p].tags_table

\* C25 witness: a caller who is no admin asks for the deletion of a tag
\* that the tags table holds and a stored quote carries, and is answered.
C25_Witness ==
    /\ pc[Main] = "done"
    /\ req[Main].route = "delete_tag"
    /\ ~req[Main].is_admin
    /\ resp[Main].statusCode = 403
    /\ req[Main].pathParameters.tag \in tags_table
    /\ \E i \in 1..Len(table) : carries_tag(table[i], req[Main].pathParameters.tag)

(***************************************************************************)
(* Properties of the OAuth success flag (SpecOAuth).                       *)
(***************************************************************************)

\* C28: an OAuth success flag is one-time use: for any success key,
\* check_oauth_success returns success at most once over the life of the
\* flag, also when two checks of the same key run concurrently.
C28_FlagSucceedsOnce ==
    ~(/\ pc["p1"] = "done" /\ pc["p2"] = "done"
      /\ req["p1"].route = "check_oauth_success"
      /\ req["p2"].route = "check_oauth_success"
      /\ req["p1"].success_key = req["p2"].success_key
      /\ resp["p1"].success
      /\ resp["p2"].success)

(***************************************************************************)
(* Properties of the scheduled delivery (SpecDelivery).                    *)
(***************************************************************************)

\* C30: in a scheduled delivery run with a quote available, exactly the
\* email subscribers whose local hour ((hour_utc + timezone offset) mod 24)
\* equals their preferred delivery hour get one send attempt each; a failed
\* send for one subscriber does not prevent the attempts for the remaining
\* ones, and the reported sent + failed equals the number of selected
\* subscribers.
C30_ExactlyTheDueSubscribers ==
    (/\ pc[Main] = "done"
     /\ req[Main].route = "scheduled_delivery"
     /\ resp[Main].statusCode = 200) =>
        LET hour_utc == Get(req[Main].detail, "hour_utc", 0)
            offsets == timezone_offsets(is_dst_period(req[Main].current_month))
            due == {i \in 1..Len(table) :
                       /\ table[i].is_subscribed
                       /\ table[i].delivery_method = "email"
                       /\ (hour_utc + offset_of(Get(table[i], "timezone", "America/New_York"), offsets)) % 24
                              = delivery_hour(table[i])}
            attempts == scan[Main].attempts
        IN  /\ \A i \in due :
                   Cardinality({k \in 1..Len(attempts) : attempts[k][1] = table[i].email}) = 1
            /\ \A k \in 1..Len(attempts) :
                   \E i \in due : attempts[k][1] = table[i].email
            /\ resp[Main].body.sent + resp[Main].body.failed = Cardinality(due)

====
